---- MODULE Spec2Model ----
(***************************************************************************)
(* State-machine model of the BlockID identity registry contract           *)
(* (contract BlockID is Ownable, src/unnamed/part_000 lines 1-568).        *)
(*                                                                         *)
(* Every external function is an operator from (storage, msg.sender,       *)
(* arguments, block.timestamp) to a call result: the storage after the     *)
(* call, the revert message ("" on success), the return value and the      *)
(* events emitted.  A `require` that fails reverts the whole call, so the  *)
(* result carries the storage the call started with.                       *)
(***************************************************************************)
EXTENDS Integers, Sequences, FiniteSets, TLC

\* ---------------------------------------------------------------- bounds
MaxRequests == 2   \* cap on requestCounter
MaxIds      == 2   \* cap on idCounter
RolesMaxRequests == 1   \* cap on requestCounter where the roles vary most
RolesMaxIds == 1   \* cap on idCounter where the roles vary most
ClockMaxRequests == 1   \* cap on requestCounter where the clock advances
ClockMaxIds == 2   \* cap on idCounter where the clock advances
DataMaxRequests == 1   \* cap on requestCounter where the metadata varies
DataMaxIds  == 2   \* cap on idCounter where the metadata varies
UintMax     == 3   \* scaled-down 2^256 - 1: timestamp + expiryDuration panics above it

ZeroAddress == 0
AllAddresses == {0, 1, 2, 3}              \* key space of the address-keyed mappings
AllHashes    == {1, 2}                    \* key space of the bytes32-keyed mapping

VARIABLES
    contractOwner,   \* Ownable._owner
    adminWallet,
    verifiers,       \* mapping(address => bool)
    identities,      \* mapping(uint256 => Identity)
    walletToId,      \* mapping(address => uint256)
    hashToId,        \* mapping(bytes32 => uint256)
    requestCounter,
    idRequests,      \* mapping(uint256 => IDRequest)
    userRequests,    \* mapping(address => uint256[])
    idCounter,
    now              \* block.timestamp

storageVars == <<contractOwner, adminWallet, verifiers, identities, walletToId,
                 hashToId, requestCounter, idRequests, userRequests, idCounter>>
vars == <<contractOwner, adminWallet, verifiers, identities, walletToId,
          hashToId, requestCounter, idRequests, userRequests, idCounter, now>>

\* Zero-initialised storage slots of the two struct mappings.
NoIdentity ==
    [owner |-> ZeroAddress, ipfsHash |-> "", createdAt |-> 0, expiresAt |-> 0,
     isVerified |-> FALSE, idType |-> "", uniqueIdentityHash |-> 0]

NoRequest ==
    [requester |-> ZeroAddress, ipfsHash |-> "", requestedAt |-> 0,
     uniqueIdentityHash |-> 0, isPending |-> FALSE, isApproved |-> FALSE,
     isRejected |-> FALSE]

\* The contract storage as one value.
Storage ==
    [owner |-> contractOwner, adminWallet |-> adminWallet, verifiers |-> verifiers,
     identities |-> identities, walletToId |-> walletToId, hashToId |-> hashToId,
     requestCounter |-> requestCounter, idRequests |-> idRequests,
     userRequests |-> userRequests, idCounter |-> idCounter]

\* ---------------------------------------------------------------- revert messages
ErrNotOwner        == "OwnableUnauthorizedAccount"
ErrInvalidOwner    == "OwnableInvalidOwner"
ErrNotVerifier     == "BlockID: caller is not a verifier"
ErrNotAdmin        == "BlockID: caller is not the admin"
ErrInvalidAddress  == "BlockID: invalid address"
ErrWalletHasId     == "BlockID: wallet already has an ID"
ErrHashExists      == "BlockID: identity with this hash already exists"
ErrHashPending     == "BlockID: a request with this hash is already pending"
ErrNoRequest       == "BlockID: request does not exist"
ErrNotPending      == "BlockID: request is not pending"
ErrRequesterHasId  == "BlockID: requester already has an ID"
ErrWalletHasIdMinted == "BlockID: wallet already has an ID minted"
ErrUniqueHashExists  == "BlockID: identity with this unique hash already exists"
ErrNoIdentity      == "BlockID: identity does not exist"
ErrAlreadyVerified == "BlockID: identity already verified"
ErrNotAuthorized   == "BlockID: caller is not authorized"
ErrNotOwnerOrAdmin == "BlockID: caller is not the owner or admin"
ErrAlreadyVerifier == "BlockID: already a verifier"
ErrNotAVerifier    == "BlockID: not a verifier"
ErrRemoveAdmin     == "BlockID: cannot remove admin as verifier"
ErrRemoveOwner     == "BlockID: cannot remove owner as verifier"
ErrPanicOverflow   == "Panic(0x11)"

\* ---------------------------------------------------------------- call results
Ok(s, ret, logs) == [s |-> s, err |-> "", ret |-> ret, logs |-> logs]

\* require(cond, msg) failing / arithmetic panic: the call reverts to the
\* storage it started with and emits nothing.
Revert(s, msg) == [s |-> s, err |-> msg, ret |-> 0, logs |-> <<>>]

\* Writing slot k of a mapping (the slot need not have been written before).
store(map, k, v) == [x \in DOMAIN map \cup {k} |-> IF x = k THEN v ELSE map[x]]

\* ---------------------------------------------------------------- events
EvVerifierAdded(verifier) == [name |-> "VerifierAdded", verifier |-> verifier]
EvVerifierRemoved(verifier) == [name |-> "VerifierRemoved", verifier |-> verifier]
EvAdminChanged(oldAdmin, newAdmin) ==
    [name |-> "AdminChanged", oldAdmin |-> oldAdmin, newAdmin |-> newAdmin]
EvOwnershipTransferred(previousOwner, newOwner) ==
    [name |-> "OwnershipTransferred", previousOwner |-> previousOwner, newOwner |-> newOwner]
EvIdentityCreated(idNumber, idOwner, idType, uniqueHash) ==
    [name |-> "IdentityCreated", idNumber |-> idNumber, owner |-> idOwner,
     idType |-> idType, uniqueIdentityHash |-> uniqueHash]
EvIdentityVerified(idNumber, verifier) ==
    [name |-> "IdentityVerified", idNumber |-> idNumber, verifier |-> verifier]
EvIdentityRevoked(idNumber, revokedBy) ==
    [name |-> "IdentityRevoked", idNumber |-> idNumber, revokedBy |-> revokedBy]
EvIDRequested(requestId, requester, uniqueHash) ==
    [name |-> "IDRequested", requestId |-> requestId, requester |-> requester,
     uniqueIdentityHash |-> uniqueHash]
EvIDRequestApproved(requestId, idNumber, approvedBy) ==
    [name |-> "IDRequestApproved", requestId |-> requestId, idNumber |-> idNumber,
     approvedBy |-> approvedBy]
EvIDRequestRejected(requestId, rejectedBy, reason) ==
    [name |-> "IDRequestRejected", requestId |-> requestId, rejectedBy |-> rejectedBy,
     reason |-> reason]

\* ---------------------------------------------------------------- views
\* Reading a mapping slot that was never written yields the zero value.
identityAt(s, idNumber) ==
    IF idNumber \in DOMAIN s.identities THEN s.identities[idNumber] ELSE NoIdentity

requestAt(s, requestId) ==
    IF requestId \in DOMAIN s.idRequests THEN s.idRequests[requestId] ELSE NoRequest

hasIdentity(s, addr) == s.walletToId[addr] # 0

isHashRegistered(s, uniqueHash) == s.hashToId[uniqueHash] # 0

isAdmin(s, addr) == addr = s.adminWallet

isVerifier(s, addr) == s.verifiers[addr]

getAdmin(s) == s.adminWallet

getIdentityByOwner(s, addr) == s.walletToId[addr]

getIdentityByHash(s, uniqueHash) == s.hashToId[uniqueHash]

getUserRequests(s, user) == s.userRequests[user]

getRequestDetails(s, requestId) ==
    LET request == requestAt(s, requestId) IN
    IF request.requester = ZeroAddress THEN Revert(s, ErrNoRequest)
    ELSE Ok(s, request, <<>>)

getIdentity(s, idNumber) ==
    LET identity == identityAt(s, idNumber) IN
    IF identity.owner = ZeroAddress THEN Revert(s, ErrNoIdentity)
    ELSE Ok(s, identity, <<>>)

\* Second loop of getPendingRequests: ids 1..upTo whose isPending flag is set,
\* in ascending order.
RECURSIVE pendingUpTo(_, _)
pendingUpTo(s, upTo) ==
    IF upTo = 0 THEN <<>>
    ELSE IF requestAt(s, upTo).isPending
         THEN Append(pendingUpTo(s, upTo - 1), upTo)
         ELSE pendingUpTo(s, upTo - 1)

\* getPendingRequests whose loops stop before the last request (< for <=).
getPendingRequests_upToLast(s) ==
    IF s.requestCounter = 0 THEN <<>> ELSE pendingUpTo(s, s.requestCounter - 1)

getPendingRequests(s) == pendingUpTo(s, s.requestCounter)

\* isIdentityValid that counts the expiry instant itself as expired (>= for >).
isIdentityValid_strict(s, idNumber, timestamp) ==
    LET identity == identityAt(s, idNumber) IN
    IF identity.owner = ZeroAddress THEN FALSE
    ELSE IF ~identity.isVerified THEN FALSE
    ELSE IF identity.expiresAt > 0 /\ timestamp >= identity.expiresAt THEN FALSE
    ELSE TRUE

isIdentityValid(s, idNumber, timestamp) ==
    LET identity == identityAt(s, idNumber) IN
    IF identity.owner = ZeroAddress THEN FALSE
    ELSE IF ~identity.isVerified THEN FALSE
    ELSE IF identity.expiresAt > 0 /\ timestamp > identity.expiresAt THEN FALSE
    ELSE TRUE

verifyIdentityHash(s, idNumber, claimedHash) ==
    LET identity == identityAt(s, idNumber) IN
    IF identity.owner = ZeroAddress THEN Revert(s, ErrNoIdentity)
    ELSE Ok(s, identity.uniqueIdentityHash = claimedHash, <<>>)

\* ---------------------------------------------------------------- role management
\* changeAdmin that takes the verifier status from the admin it replaces.
changeAdmin_dropsOldAdmin(s, sender, newAdmin) ==
    IF s.owner # sender THEN Revert(s, ErrNotOwner)
    ELSE IF newAdmin = ZeroAddress THEN Revert(s, ErrInvalidAddress)
    ELSE
      LET oldAdmin == s.adminWallet
          s1 == [s EXCEPT !.adminWallet = newAdmin,
                          !.verifiers = [x \in DOMAIN @ |->
                                           IF x = newAdmin THEN TRUE
                                           ELSE IF x = oldAdmin THEN FALSE ELSE @[x]]]
      IN Ok(s1, 0, <<EvAdminChanged(oldAdmin, newAdmin)>>)

\* changeAdmin without the verifier grant of lines 115-118.
changeAdmin_noVerifierGrant(s, sender, newAdmin) ==
    IF s.owner # sender THEN Revert(s, ErrNotOwner)
    ELSE IF newAdmin = ZeroAddress THEN Revert(s, ErrInvalidAddress)
    ELSE Ok([s EXCEPT !.adminWallet = newAdmin], 0,
            <<EvAdminChanged(s.adminWallet, newAdmin)>>)

changeAdmin(s, sender, newAdmin) ==
    IF s.owner # sender THEN Revert(s, ErrNotOwner)
    ELSE IF newAdmin = ZeroAddress THEN Revert(s, ErrInvalidAddress)
    ELSE
      LET oldAdmin == s.adminWallet
          s1 == [s EXCEPT !.adminWallet = newAdmin]
      IN IF ~s1.verifiers[newAdmin]
         THEN Ok([s1 EXCEPT !.verifiers[newAdmin] = TRUE], 0,
                 <<EvVerifierAdded(newAdmin), EvAdminChanged(oldAdmin, newAdmin)>>)
         ELSE Ok(s1, 0, <<EvAdminChanged(oldAdmin, newAdmin)>>)

transferOwnership(s, sender, newOwner) ==
    IF s.owner # sender THEN Revert(s, ErrNotOwner)
    ELSE IF newOwner = ZeroAddress THEN Revert(s, ErrInvalidOwner)
    ELSE Ok([s EXCEPT !.owner = newOwner], 0, <<EvOwnershipTransferred(s.owner, newOwner)>>)

renounceOwnership(s, sender) ==
    IF s.owner # sender THEN Revert(s, ErrNotOwner)
    ELSE Ok([s EXCEPT !.owner = ZeroAddress], 0,
            <<EvOwnershipTransferred(s.owner, ZeroAddress)>>)

addVerifier(s, sender, verifier) ==
    IF sender # s.adminWallet THEN Revert(s, ErrNotAdmin)
    ELSE IF verifier = ZeroAddress THEN Revert(s, ErrInvalidAddress)
    ELSE IF s.verifiers[verifier] THEN Revert(s, ErrAlreadyVerifier)
    ELSE Ok([s EXCEPT !.verifiers[verifier] = TRUE], 0, <<EvVerifierAdded(verifier)>>)

\* removeVerifier without the admin check of line 464.
removeVerifier_noAdminCheck(s, sender, verifier) ==
    IF sender # s.adminWallet THEN Revert(s, ErrNotAdmin)
    ELSE IF ~s.verifiers[verifier] THEN Revert(s, ErrNotAVerifier)
    ELSE IF verifier = s.owner THEN Revert(s, ErrRemoveOwner)
    ELSE Ok([s EXCEPT !.verifiers[verifier] = FALSE], 0, <<EvVerifierRemoved(verifier)>>)

\* removeVerifier without the contract-owner check of line 465.
removeVerifier_noOwnerCheck(s, sender, verifier) ==
    IF sender # s.adminWallet THEN Revert(s, ErrNotAdmin)
    ELSE IF ~s.verifiers[verifier] THEN Revert(s, ErrNotAVerifier)
    ELSE IF verifier = s.adminWallet THEN Revert(s, ErrRemoveAdmin)
    ELSE Ok([s EXCEPT !.verifiers[verifier] = FALSE], 0, <<EvVerifierRemoved(verifier)>>)

removeVerifier(s, sender, verifier) ==
    IF sender # s.adminWallet THEN Revert(s, ErrNotAdmin)
    ELSE IF ~s.verifiers[verifier] THEN Revert(s, ErrNotAVerifier)
    ELSE IF verifier = s.adminWallet THEN Revert(s, ErrRemoveAdmin)
    ELSE IF verifier = s.owner THEN Revert(s, ErrRemoveOwner)
    ELSE Ok([s EXCEPT !.verifiers[verifier] = FALSE], 0, <<EvVerifierRemoved(verifier)>>)

\* ---------------------------------------------------------------- request workflow
\* The loop of requestIdentity over userRequests[msg.sender] from index i on:
\* TRUE when some listed request is pending and carries uniqueHash.
RECURSIVE hashPendingFrom(_, _, _, _)
hashPendingFrom(s, sender, i, uniqueHash) ==
    IF i > Len(s.userRequests[sender]) THEN FALSE
    ELSE LET reqId == s.userRequests[sender][i] IN
         IF requestAt(s, reqId).isPending /\ requestAt(s, reqId).uniqueIdentityHash = uniqueHash
         THEN TRUE
         ELSE hashPendingFrom(s, sender, i + 1, uniqueHash)

\* requestIdentity's store that numbers requests from 0 (post-increment).
requestIdentity_store_zeroBased(s, sender, ipfsHash, idType, uniqueHash, timestamp) ==
    LET requestId == s.requestCounter
        request == [requester |-> sender, ipfsHash |-> ipfsHash,
                    requestedAt |-> timestamp, uniqueIdentityHash |-> uniqueHash,
                    isPending |-> TRUE, isApproved |-> FALSE, isRejected |-> FALSE]
        s1 == [s EXCEPT !.requestCounter = requestId + 1,
                        !.idRequests = store(@, requestId, request),
                        !.userRequests[sender] = Append(@, requestId)]
    IN Ok(s1, requestId, <<EvIDRequested(requestId, sender, uniqueHash)>>)

\* requestIdentity's store without the push to userRequests (line 199 lost).
requestIdentity_store_noUserList(s, sender, ipfsHash, idType, uniqueHash, timestamp) ==
    LET requestId == s.requestCounter + 1
        request == [requester |-> sender, ipfsHash |-> ipfsHash,
                    requestedAt |-> timestamp, uniqueIdentityHash |-> uniqueHash,
                    isPending |-> TRUE, isApproved |-> FALSE, isRejected |-> FALSE]
        s1 == [s EXCEPT !.requestCounter = requestId,
                        !.idRequests = store(@, requestId, request)]
    IN Ok(s1, requestId, <<EvIDRequested(requestId, sender, uniqueHash)>>)

\* requestIdentity after its checks (lines 184-203).
requestIdentity_store(s, sender, ipfsHash, idType, uniqueHash, timestamp) ==
    LET requestId == s.requestCounter + 1
        request == [requester |-> sender, ipfsHash |-> ipfsHash,
                    requestedAt |-> timestamp, uniqueIdentityHash |-> uniqueHash,
                    isPending |-> TRUE, isApproved |-> FALSE, isRejected |-> FALSE]
        s1 == [s EXCEPT !.requestCounter = requestId,
                        !.idRequests = store(@, requestId, request),
                        !.userRequests[sender] = Append(@, requestId)]
    IN Ok(s1, requestId, <<EvIDRequested(requestId, sender, uniqueHash)>>)

\* requestIdentity without the pending-duplicate loop of lines 177-182.
requestIdentity_noPendingScan(s, sender, ipfsHash, idType, uniqueHash, timestamp) ==
    IF hasIdentity(s, sender) THEN Revert(s, ErrWalletHasId)
    ELSE IF isHashRegistered(s, uniqueHash) THEN Revert(s, ErrHashExists)
    ELSE requestIdentity_store(s, sender, ipfsHash, idType, uniqueHash, timestamp)

\* requestIdentity without the wallet check of line 171.
requestIdentity_noWalletCheck(s, sender, ipfsHash, idType, uniqueHash, timestamp) ==
    IF isHashRegistered(s, uniqueHash) THEN Revert(s, ErrHashExists)
    ELSE IF hashPendingFrom(s, sender, 1, uniqueHash) THEN Revert(s, ErrHashPending)
    ELSE requestIdentity_store(s, sender, ipfsHash, idType, uniqueHash, timestamp)

\* requestIdentity whose pending-duplicate scan covers every caller's requests.
requestIdentity_globalPendingScan(s, sender, ipfsHash, idType, uniqueHash, timestamp) ==
    IF hasIdentity(s, sender) THEN Revert(s, ErrWalletHasId)
    ELSE IF isHashRegistered(s, uniqueHash) THEN Revert(s, ErrHashExists)
    ELSE IF \E reqId \in 1..s.requestCounter :
              requestAt(s, reqId).isPending
                /\ requestAt(s, reqId).uniqueIdentityHash = uniqueHash
    THEN Revert(s, ErrHashPending)
    ELSE requestIdentity_store(s, sender, ipfsHash, idType, uniqueHash, timestamp)

requestIdentity(s, sender, ipfsHash, idType, uniqueHash, timestamp) ==
    IF hasIdentity(s, sender) THEN Revert(s, ErrWalletHasId)
    ELSE IF isHashRegistered(s, uniqueHash) THEN Revert(s, ErrHashExists)
    ELSE IF hashPendingFrom(s, sender, 1, uniqueHash) THEN Revert(s, ErrHashPending)
    ELSE requestIdentity_store(s, sender, ipfsHash, idType, uniqueHash, timestamp)

\* approveIDRequest's mint that computes an expiry also for expiryDuration = 0.
approveIDRequest_mint_alwaysExpires(s, sender, requestId, expiryDuration, timestamp) ==
    LET requester  == s.idRequests[requestId].requester
        ipfsHash   == s.idRequests[requestId].ipfsHash
        uniqueHash == s.idRequests[requestId].uniqueIdentityHash
        s1 == [s EXCEPT !.idCounter = @ + 1]
        idNumber == s1.idCounter
    IN
    IF timestamp + expiryDuration > UintMax
    THEN Revert(s, ErrPanicOverflow)
    ELSE
      LET identity == [owner |-> requester, ipfsHash |-> ipfsHash,
                       createdAt |-> timestamp, expiresAt |-> timestamp + expiryDuration,
                       isVerified |-> TRUE, idType |-> "personal_id",
                       uniqueIdentityHash |-> uniqueHash]
          s2 == [s1 EXCEPT !.identities = store(@, idNumber, identity),
                           !.walletToId[requester] = idNumber,
                           !.hashToId[uniqueHash] = idNumber,
                           !.idRequests[requestId].isPending = FALSE,
                           !.idRequests[requestId].isApproved = TRUE]
      IN Ok(s2, idNumber,
            <<EvIDRequestApproved(requestId, idNumber, sender),
              EvIdentityCreated(idNumber, requester, "personal_id", uniqueHash)>>)

\* approveIDRequest's mint that emits IdentityCreated before IDRequestApproved.
approveIDRequest_mint_createdFirst(s, sender, requestId, expiryDuration, timestamp) ==
    LET requester  == s.idRequests[requestId].requester
        ipfsHash   == s.idRequests[requestId].ipfsHash
        uniqueHash == s.idRequests[requestId].uniqueIdentityHash
        s1 == [s EXCEPT !.idCounter = @ + 1]
        idNumber == s1.idCounter
    IN
    IF expiryDuration > 0 /\ timestamp + expiryDuration > UintMax
    THEN Revert(s, ErrPanicOverflow)
    ELSE
      LET expiresAt == IF expiryDuration > 0 THEN timestamp + expiryDuration ELSE 0
          identity == [owner |-> requester, ipfsHash |-> ipfsHash,
                       createdAt |-> timestamp, expiresAt |-> expiresAt,
                       isVerified |-> TRUE, idType |-> "personal_id",
                       uniqueIdentityHash |-> uniqueHash]
          s2 == [s1 EXCEPT !.identities = store(@, idNumber, identity),
                           !.walletToId[requester] = idNumber,
                           !.hashToId[uniqueHash] = idNumber,
                           !.idRequests[requestId].isPending = FALSE,
                           !.idRequests[requestId].isApproved = TRUE]
      IN Ok(s2, idNumber,
            <<EvIdentityCreated(idNumber, requester, "personal_id", uniqueHash),
              EvIDRequestApproved(requestId, idNumber, sender)>>)

\* approveIDRequest's mint that leaves the wallet index unset (line 245 lost).
approveIDRequest_mint_noWalletIndex(s, sender, requestId, expiryDuration, timestamp) ==
    LET requester  == s.idRequests[requestId].requester
        ipfsHash   == s.idRequests[requestId].ipfsHash
        uniqueHash == s.idRequests[requestId].uniqueIdentityHash
        s1 == [s EXCEPT !.idCounter = @ + 1]
        idNumber == s1.idCounter
    IN
    IF expiryDuration > 0 /\ timestamp + expiryDuration > UintMax
    THEN Revert(s, ErrPanicOverflow)
    ELSE
      LET expiresAt == IF expiryDuration > 0 THEN timestamp + expiryDuration ELSE 0
          identity == [owner |-> requester, ipfsHash |-> ipfsHash,
                       createdAt |-> timestamp, expiresAt |-> expiresAt,
                       isVerified |-> TRUE, idType |-> "personal_id",
                       uniqueIdentityHash |-> uniqueHash]
          s2 == [s1 EXCEPT !.identities = store(@, idNumber, identity),
                           !.hashToId[uniqueHash] = idNumber,
                           !.idRequests[requestId].isPending = FALSE,
                           !.idRequests[requestId].isApproved = TRUE]
      IN Ok(s2, idNumber,
            <<EvIDRequestApproved(requestId, idNumber, sender),
              EvIdentityCreated(idNumber, requester, "personal_id", uniqueHash)>>)

\* approveIDRequest's mint that deletes the request it resolves.
approveIDRequest_mint_deletesRequest(s, sender, requestId, expiryDuration, timestamp) ==
    LET requester  == s.idRequests[requestId].requester
        ipfsHash   == s.idRequests[requestId].ipfsHash
        uniqueHash == s.idRequests[requestId].uniqueIdentityHash
        s1 == [s EXCEPT !.idCounter = @ + 1]
        idNumber == s1.idCounter
    IN
    IF expiryDuration > 0 /\ timestamp + expiryDuration > UintMax
    THEN Revert(s, ErrPanicOverflow)
    ELSE
      LET expiresAt == IF expiryDuration > 0 THEN timestamp + expiryDuration ELSE 0
          identity == [owner |-> requester, ipfsHash |-> ipfsHash,
                       createdAt |-> timestamp, expiresAt |-> expiresAt,
                       isVerified |-> TRUE, idType |-> "personal_id",
                       uniqueIdentityHash |-> uniqueHash]
          s2 == [s1 EXCEPT !.identities = store(@, idNumber, identity),
                           !.walletToId[requester] = idNumber,
                           !.hashToId[uniqueHash] = idNumber,
                           !.idRequests[requestId] = NoRequest]
      IN Ok(s2, idNumber,
            <<EvIDRequestApproved(requestId, idNumber, sender),
              EvIdentityCreated(idNumber, requester, "personal_id", uniqueHash)>>)

\* approveIDRequest after its five require checks (lines 227-258).
approveIDRequest_mint(s, sender, requestId, expiryDuration, timestamp) ==
    LET requester  == s.idRequests[requestId].requester
        ipfsHash   == s.idRequests[requestId].ipfsHash
        uniqueHash == s.idRequests[requestId].uniqueIdentityHash
        s1 == [s EXCEPT !.idCounter = @ + 1]
        idNumber == s1.idCounter
    IN
    IF expiryDuration > 0 /\ timestamp + expiryDuration > UintMax
    THEN Revert(s, ErrPanicOverflow)
    ELSE
      LET expiresAt == IF expiryDuration > 0 THEN timestamp + expiryDuration ELSE 0
          identity == [owner |-> requester, ipfsHash |-> ipfsHash,
                       createdAt |-> timestamp, expiresAt |-> expiresAt,
                       isVerified |-> TRUE, idType |-> "personal_id",
                       uniqueIdentityHash |-> uniqueHash]
          s2 == [s1 EXCEPT !.identities = store(@, idNumber, identity),
                           !.walletToId[requester] = idNumber,
                           !.hashToId[uniqueHash] = idNumber,
                           !.idRequests[requestId].isPending = FALSE,
                           !.idRequests[requestId].isApproved = TRUE]
      IN Ok(s2, idNumber,
            <<EvIDRequestApproved(requestId, idNumber, sender),
              EvIdentityCreated(idNumber, requester, "personal_id", uniqueHash)>>)

\* approveIDRequest with the existence check ahead of the onlyAdmin modifier.
approveIDRequest_existsFirst(s, sender, requestId, expiryDuration, timestamp) ==
    IF requestAt(s, requestId).requester = ZeroAddress THEN Revert(s, ErrNoRequest)
    ELSE IF sender # s.adminWallet THEN Revert(s, ErrNotAdmin)
    ELSE IF ~requestAt(s, requestId).isPending THEN Revert(s, ErrNotPending)
    ELSE IF hasIdentity(s, s.idRequests[requestId].requester)
    THEN Revert(s, ErrRequesterHasId)
    ELSE IF isHashRegistered(s, s.idRequests[requestId].uniqueIdentityHash)
    THEN Revert(s, ErrHashExists)
    ELSE approveIDRequest_mint(s, sender, requestId, expiryDuration, timestamp)

\* approveIDRequest without the requester double-check of line 222.
approveIDRequest_noRequesterCheck(s, sender, requestId, expiryDuration, timestamp) ==
    IF sender # s.adminWallet THEN Revert(s, ErrNotAdmin)
    ELSE IF requestAt(s, requestId).requester = ZeroAddress THEN Revert(s, ErrNoRequest)
    ELSE IF ~requestAt(s, requestId).isPending THEN Revert(s, ErrNotPending)
    ELSE IF isHashRegistered(s, s.idRequests[requestId].uniqueIdentityHash)
    THEN Revert(s, ErrHashExists)
    ELSE approveIDRequest_mint(s, sender, requestId, expiryDuration, timestamp)

\* approveIDRequest without the fingerprint double-check of line 225.
approveIDRequest_noHashCheck(s, sender, requestId, expiryDuration, timestamp) ==
    IF sender # s.adminWallet THEN Revert(s, ErrNotAdmin)
    ELSE IF requestAt(s, requestId).requester = ZeroAddress THEN Revert(s, ErrNoRequest)
    ELSE IF ~requestAt(s, requestId).isPending THEN Revert(s, ErrNotPending)
    ELSE IF hasIdentity(s, s.idRequests[requestId].requester)
    THEN Revert(s, ErrRequesterHasId)
    ELSE approveIDRequest_mint(s, sender, requestId, expiryDuration, timestamp)

approveIDRequest(s, sender, requestId, expiryDuration, timestamp) ==
    IF sender # s.adminWallet THEN Revert(s, ErrNotAdmin)
    ELSE IF requestAt(s, requestId).requester = ZeroAddress THEN Revert(s, ErrNoRequest)
    ELSE IF ~requestAt(s, requestId).isPending THEN Revert(s, ErrNotPending)
    ELSE IF hasIdentity(s, s.idRequests[requestId].requester)
    THEN Revert(s, ErrRequesterHasId)
    ELSE IF isHashRegistered(s, s.idRequests[requestId].uniqueIdentityHash)
    THEN Revert(s, ErrHashExists)
    ELSE approveIDRequest_mint(s, sender, requestId, expiryDuration, timestamp)

\* rejectIDRequest that re-validates the requester as approveIDRequest does.
rejectIDRequest_revalidates(s, sender, requestId, reason) ==
    IF sender # s.adminWallet THEN Revert(s, ErrNotAdmin)
    ELSE IF requestAt(s, requestId).requester = ZeroAddress THEN Revert(s, ErrNoRequest)
    ELSE IF ~requestAt(s, requestId).isPending THEN Revert(s, ErrNotPending)
    ELSE IF hasIdentity(s, s.idRequests[requestId].requester)
    THEN Revert(s, ErrRequesterHasId)
    ELSE Ok([s EXCEPT !.idRequests[requestId].isPending = FALSE,
                      !.idRequests[requestId].isRejected = TRUE], 0,
            <<EvIDRequestRejected(requestId, sender, reason)>>)

\* rejectIDRequest that sets isRejected but leaves isPending set (line 272 lost).
rejectIDRequest_keepsPending(s, sender, requestId, reason) ==
    IF sender # s.adminWallet THEN Revert(s, ErrNotAdmin)
    ELSE IF requestAt(s, requestId).requester = ZeroAddress THEN Revert(s, ErrNoRequest)
    ELSE IF ~requestAt(s, requestId).isPending THEN Revert(s, ErrNotPending)
    ELSE Ok([s EXCEPT !.idRequests[requestId].isRejected = TRUE], 0,
            <<EvIDRequestRejected(requestId, sender, reason)>>)

\* rejectIDRequest without the pending check of line 269.
rejectIDRequest_noPendingCheck(s, sender, requestId, reason) ==
    IF sender # s.adminWallet THEN Revert(s, ErrNotAdmin)
    ELSE IF requestAt(s, requestId).requester = ZeroAddress THEN Revert(s, ErrNoRequest)
    ELSE Ok([s EXCEPT !.idRequests[requestId].isPending = FALSE,
                      !.idRequests[requestId].isRejected = TRUE], 0,
            <<EvIDRequestRejected(requestId, sender, reason)>>)

\* rejectIDRequest that keeps the reason on the request record.
rejectIDRequest_storesReason(s, sender, requestId, reason) ==
    IF sender # s.adminWallet THEN Revert(s, ErrNotAdmin)
    ELSE IF requestAt(s, requestId).requester = ZeroAddress THEN Revert(s, ErrNoRequest)
    ELSE IF ~requestAt(s, requestId).isPending THEN Revert(s, ErrNotPending)
    ELSE Ok([s EXCEPT !.idRequests[requestId] =
                        [requester |-> @.requester, ipfsHash |-> @.ipfsHash,
                         requestedAt |-> @.requestedAt,
                         uniqueIdentityHash |-> @.uniqueIdentityHash,
                         isPending |-> FALSE, isApproved |-> FALSE,
                         isRejected |-> TRUE, reason |-> reason]], 0,
            <<EvIDRequestRejected(requestId, sender, reason)>>)

rejectIDRequest(s, sender, requestId, reason) ==
    IF sender # s.adminWallet THEN Revert(s, ErrNotAdmin)
    ELSE IF requestAt(s, requestId).requester = ZeroAddress THEN Revert(s, ErrNoRequest)
    ELSE IF ~requestAt(s, requestId).isPending THEN Revert(s, ErrNotPending)
    ELSE Ok([s EXCEPT !.idRequests[requestId].isPending = FALSE,
                      !.idRequests[requestId].isRejected = TRUE], 0,
            <<EvIDRequestRejected(requestId, sender, reason)>>)

\* ---------------------------------------------------------------- identity ledger
\* createIdentity whose overflow path fails without undoing idCounter++.
createIdentity_mint_keepsCounter(s, sender, idOwner, ipfsHash, expiryDuration, idType, uniqueHash, timestamp) ==
    LET s1 == [s EXCEPT !.idCounter = @ + 1]
        idNumber == s1.idCounter
    IN
    IF expiryDuration > 0 /\ timestamp + expiryDuration > UintMax
    THEN Revert(s1, ErrPanicOverflow)
    ELSE
      LET expiresAt == IF expiryDuration > 0 THEN timestamp + expiryDuration ELSE 0
          identity == [owner |-> idOwner, ipfsHash |-> ipfsHash,
                       createdAt |-> timestamp, expiresAt |-> expiresAt,
                       isVerified |-> TRUE, idType |-> idType,
                       uniqueIdentityHash |-> uniqueHash]
          s2 == [s1 EXCEPT !.identities = store(@, idNumber, identity),
                           !.walletToId[idOwner] = idNumber,
                           !.hashToId[uniqueHash] = idNumber]
      IN Ok(s2, idNumber, <<EvIdentityCreated(idNumber, idOwner, idType, uniqueHash)>>)

\* createIdentity's mint that never sets an expiry (lines 372-375 lost).
createIdentity_mint_noExpiry(s, sender, idOwner, ipfsHash, expiryDuration, idType, uniqueHash, timestamp) ==
    LET s1 == [s EXCEPT !.idCounter = @ + 1]
        idNumber == s1.idCounter
        identity == [owner |-> idOwner, ipfsHash |-> ipfsHash,
                     createdAt |-> timestamp, expiresAt |-> 0,
                     isVerified |-> TRUE, idType |-> idType,
                     uniqueIdentityHash |-> uniqueHash]
        s2 == [s1 EXCEPT !.identities = store(@, idNumber, identity),
                         !.walletToId[idOwner] = idNumber,
                         !.hashToId[uniqueHash] = idNumber]
    IN Ok(s2, idNumber, <<EvIdentityCreated(idNumber, idOwner, idType, uniqueHash)>>)

\* createIdentity's mint that stores the identity unverified.
createIdentity_mint_unverified(s, sender, idOwner, ipfsHash, expiryDuration, idType, uniqueHash, timestamp) ==
    LET s1 == [s EXCEPT !.idCounter = @ + 1]
        idNumber == s1.idCounter
    IN
    IF expiryDuration > 0 /\ timestamp + expiryDuration > UintMax
    THEN Revert(s, ErrPanicOverflow)
    ELSE
      LET expiresAt == IF expiryDuration > 0 THEN timestamp + expiryDuration ELSE 0
          identity == [owner |-> idOwner, ipfsHash |-> ipfsHash,
                       createdAt |-> timestamp, expiresAt |-> expiresAt,
                       isVerified |-> FALSE, idType |-> idType,
                       uniqueIdentityHash |-> uniqueHash]
          s2 == [s1 EXCEPT !.identities = store(@, idNumber, identity),
                           !.walletToId[idOwner] = idNumber,
                           !.hashToId[uniqueHash] = idNumber]
      IN Ok(s2, idNumber, <<EvIdentityCreated(idNumber, idOwner, idType, uniqueHash)>>)

\* createIdentity after its three require checks (lines 369-392).
createIdentity_mint(s, sender, idOwner, ipfsHash, expiryDuration, idType, uniqueHash, timestamp) ==
    LET s1 == [s EXCEPT !.idCounter = @ + 1]
        idNumber == s1.idCounter
    IN
    IF expiryDuration > 0 /\ timestamp + expiryDuration > UintMax
    THEN Revert(s, ErrPanicOverflow)
    ELSE
      LET expiresAt == IF expiryDuration > 0 THEN timestamp + expiryDuration ELSE 0
          identity == [owner |-> idOwner, ipfsHash |-> ipfsHash,
                       createdAt |-> timestamp, expiresAt |-> expiresAt,
                       isVerified |-> TRUE, idType |-> idType,
                       uniqueIdentityHash |-> uniqueHash]
          s2 == [s1 EXCEPT !.identities = store(@, idNumber, identity),
                           !.walletToId[idOwner] = idNumber,
                           !.hashToId[uniqueHash] = idNumber]
      IN Ok(s2, idNumber, <<EvIdentityCreated(idNumber, idOwner, idType, uniqueHash)>>)

\* createIdentity without the one-ID-per-wallet check of line 364.
createIdentity_noWalletCheck(s, sender, idOwner, ipfsHash, expiryDuration, idType, uniqueHash, timestamp) ==
    IF sender # s.adminWallet THEN Revert(s, ErrNotAdmin)
    ELSE IF isHashRegistered(s, uniqueHash) THEN Revert(s, ErrUniqueHashExists)
    ELSE createIdentity_mint(s, sender, idOwner, ipfsHash, expiryDuration, idType,
                             uniqueHash, timestamp)

\* createIdentity with the fingerprint check ahead of the wallet check.
createIdentity_hashCheckFirst(s, sender, idOwner, ipfsHash, expiryDuration, idType, uniqueHash, timestamp) ==
    IF sender # s.adminWallet THEN Revert(s, ErrNotAdmin)
    ELSE IF isHashRegistered(s, uniqueHash) THEN Revert(s, ErrUniqueHashExists)
    ELSE IF hasIdentity(s, idOwner) THEN Revert(s, ErrWalletHasIdMinted)
    ELSE createIdentity_mint(s, sender, idOwner, ipfsHash, expiryDuration, idType,
                             uniqueHash, timestamp)

createIdentity(s, sender, idOwner, ipfsHash, expiryDuration, idType, uniqueHash, timestamp) ==
    IF sender # s.adminWallet THEN Revert(s, ErrNotAdmin)
    ELSE IF hasIdentity(s, idOwner) THEN Revert(s, ErrWalletHasIdMinted)
    ELSE IF isHashRegistered(s, uniqueHash) THEN Revert(s, ErrUniqueHashExists)
    ELSE createIdentity_mint(s, sender, idOwner, ipfsHash, expiryDuration, idType,
                             uniqueHash, timestamp)

\* verifyIdentity that accepts an already verified identity as a no-op.
verifyIdentity_idempotent(s, sender, idNumber) ==
    IF ~s.verifiers[sender] THEN Revert(s, ErrNotVerifier)
    ELSE IF identityAt(s, idNumber).owner = ZeroAddress THEN Revert(s, ErrNoIdentity)
    ELSE Ok([s EXCEPT !.identities[idNumber].isVerified = TRUE], 0,
            <<EvIdentityVerified(idNumber, sender)>>)

verifyIdentity(s, sender, idNumber) ==
    IF ~s.verifiers[sender] THEN Revert(s, ErrNotVerifier)
    ELSE IF identityAt(s, idNumber).owner = ZeroAddress THEN Revert(s, ErrNoIdentity)
    ELSE IF identityAt(s, idNumber).isVerified THEN Revert(s, ErrAlreadyVerified)
    ELSE Ok([s EXCEPT !.identities[idNumber].isVerified = TRUE], 0,
            <<EvIdentityVerified(idNumber, sender)>>)

\* revokeIdentity without the authorization check of lines 414-417.
revokeIdentity_anyone(s, sender, idNumber) ==
    IF identityAt(s, idNumber).owner = ZeroAddress THEN Revert(s, ErrNoIdentity)
    ELSE
      LET s1 == [s  EXCEPT !.walletToId[s.identities[idNumber].owner] = 0]
          s2 == [s1 EXCEPT !.hashToId[s1.identities[idNumber].uniqueIdentityHash] = 0]
          s3 == [s2 EXCEPT !.identities[idNumber] = NoIdentity]
      IN Ok(s3, 0, <<EvIdentityRevoked(idNumber, sender)>>)

\* revokeIdentity that does not admit the contract owner (line 415 lost).
revokeIdentity_noContractOwner(s, sender, idNumber) ==
    IF identityAt(s, idNumber).owner = ZeroAddress THEN Revert(s, ErrNoIdentity)
    ELSE IF ~(\/ s.identities[idNumber].owner = sender
              \/ s.verifiers[sender]
              \/ sender = s.adminWallet)
    THEN Revert(s, ErrNotAuthorized)
    ELSE
      LET s1 == [s  EXCEPT !.walletToId[s.identities[idNumber].owner] = 0]
          s2 == [s1 EXCEPT !.hashToId[s1.identities[idNumber].uniqueIdentityHash] = 0]
          s3 == [s2 EXCEPT !.identities[idNumber] = NoIdentity]
      IN Ok(s3, 0, <<EvIdentityRevoked(idNumber, sender)>>)

\* revokeIdentity that leaves the fingerprint index entry (line 422 lost).
revokeIdentity_keepsHashIndex(s, sender, idNumber) ==
    IF identityAt(s, idNumber).owner = ZeroAddress THEN Revert(s, ErrNoIdentity)
    ELSE IF ~(\/ s.identities[idNumber].owner = sender
              \/ s.verifiers[sender]
              \/ s.owner = sender
              \/ sender = s.adminWallet)
    THEN Revert(s, ErrNotAuthorized)
    ELSE
      LET s1 == [s  EXCEPT !.walletToId[s.identities[idNumber].owner] = 0]
          s3 == [s1 EXCEPT !.identities[idNumber] = NoIdentity]
      IN Ok(s3, 0, <<EvIdentityRevoked(idNumber, sender)>>)

\* revokeIdentity that hands the id number of the newest identity back.
revokeIdentity_reusesId(s, sender, idNumber) ==
    IF identityAt(s, idNumber).owner = ZeroAddress THEN Revert(s, ErrNoIdentity)
    ELSE IF ~(\/ s.identities[idNumber].owner = sender
              \/ s.verifiers[sender]
              \/ s.owner = sender
              \/ sender = s.adminWallet)
    THEN Revert(s, ErrNotAuthorized)
    ELSE
      LET s1 == [s  EXCEPT !.walletToId[s.identities[idNumber].owner] = 0]
          s2 == [s1 EXCEPT !.hashToId[s1.identities[idNumber].uniqueIdentityHash] = 0]
          s3 == [s2 EXCEPT !.identities[idNumber] = NoIdentity,
                           !.idCounter = IF idNumber = @ THEN @ - 1 ELSE @]
      IN Ok(s3, 0, <<EvIdentityRevoked(idNumber, sender)>>)

revokeIdentity(s, sender, idNumber) ==
    IF identityAt(s, idNumber).owner = ZeroAddress THEN Revert(s, ErrNoIdentity)
    ELSE IF ~(\/ s.identities[idNumber].owner = sender
              \/ s.verifiers[sender]
              \/ s.owner = sender
              \/ sender = s.adminWallet)
    THEN Revert(s, ErrNotAuthorized)
    ELSE
      LET s1 == [s  EXCEPT !.walletToId[s.identities[idNumber].owner] = 0]
          s2 == [s1 EXCEPT !.hashToId[s1.identities[idNumber].uniqueIdentityHash] = 0]
          s3 == [s2 EXCEPT !.identities[idNumber] = NoIdentity]
      IN Ok(s3, 0, <<EvIdentityRevoked(idNumber, sender)>>)

\* updateIdentityData that also admits verifiers.
updateIdentityData_verifierAllowed(s, sender, idNumber, newIpfsHash) ==
    IF identityAt(s, idNumber).owner = ZeroAddress THEN Revert(s, ErrNoIdentity)
    ELSE IF ~(\/ s.identities[idNumber].owner = sender
              \/ sender = s.adminWallet
              \/ s.verifiers[sender])
    THEN Revert(s, ErrNotOwnerOrAdmin)
    ELSE Ok([s EXCEPT !.identities[idNumber].ipfsHash = newIpfsHash], 0, <<>>)

\* updateIdentityData that rewrites the identity's type along with the pointer.
updateIdentityData_retypes(s, sender, idNumber, newIpfsHash) ==
    IF identityAt(s, idNumber).owner = ZeroAddress THEN Revert(s, ErrNoIdentity)
    ELSE IF ~(s.identities[idNumber].owner = sender \/ sender = s.adminWallet)
    THEN Revert(s, ErrNotOwnerOrAdmin)
    ELSE Ok([s EXCEPT !.identities[idNumber].ipfsHash = newIpfsHash,
                      !.identities[idNumber].idType = "updated"], 0, <<>>)

updateIdentityData(s, sender, idNumber, newIpfsHash) ==
    IF identityAt(s, idNumber).owner = ZeroAddress THEN Revert(s, ErrNoIdentity)
    ELSE IF ~(s.identities[idNumber].owner = sender \/ sender = s.adminWallet)
    THEN Revert(s, ErrNotOwnerOrAdmin)
    ELSE Ok([s EXCEPT !.identities[idNumber].ipfsHash = newIpfsHash], 0, <<>>)

\* ---------------------------------------------------------------- constructor
\* constructor that makes only the admin wallet a verifier (line 82 lost).
constructor_noDeployerVerifier(sender, adminArg) ==
    LET s == [owner |-> sender,
              adminWallet |-> adminArg,
              verifiers |-> [a \in AllAddresses |-> a = adminArg],
              identities |-> <<>>,
              walletToId |-> [a \in AllAddresses |-> 0],
              hashToId |-> [h \in AllHashes |-> 0],
              requestCounter |-> 0,
              idRequests |-> <<>>,
              userRequests |-> [a \in AllAddresses |-> <<>>],
              idCounter |-> 0]
    IN Ok(s, 0, <<EvOwnershipTransferred(ZeroAddress, sender),
                  EvVerifierAdded(adminArg), EvAdminChanged(ZeroAddress, adminArg)>>)

\* constructor(address _adminWallet) Ownable(msg.sender)
constructor(sender, adminArg) ==
    LET s == [owner |-> sender,
              adminWallet |-> adminArg,
              verifiers |-> [a \in AllAddresses |-> a = sender \/ a = adminArg],
              identities |-> <<>>,
              walletToId |-> [a \in AllAddresses |-> 0],
              hashToId |-> [h \in AllHashes |-> 0],
              requestCounter |-> 0,
              idRequests |-> <<>>,
              userRequests |-> [a \in AllAddresses |-> <<>>],
              idCounter |-> 0]
    IN Ok(s, 0, <<EvOwnershipTransferred(ZeroAddress, sender), EvVerifierAdded(sender),
                  EvVerifierAdded(adminArg), EvAdminChanged(ZeroAddress, adminArg)>>)

\* ---------------------------------------------------------------- transactions
\* A transaction installs the storage of its call result; a reverted call
\* therefore leaves every variable as it was.
Commit(r) ==
    /\ contractOwner' = r.s.owner
    /\ adminWallet' = r.s.adminWallet
    /\ verifiers' = r.s.verifiers
    /\ identities' = r.s.identities
    /\ walletToId' = r.s.walletToId
    /\ hashToId' = r.s.hashToId
    /\ requestCounter' = r.s.requestCounter
    /\ idRequests' = r.s.idRequests
    /\ userRequests' = r.s.userRequests
    /\ idCounter' = r.s.idCounter
    /\ UNCHANGED now

\* The accounts and argument values the transactions are drawn from.
Registry ==
    [deployers  |-> {1},
     adminArgs  |-> {0, 1, 2},
     senders    |-> {1, 2},
     addresses  |-> {0, 1, 2},
     ipfsHashes |-> {"QmA"},
     idTypes    |-> {"passport"},
     hashes     |-> {1, 2},
     expiries   |-> {0, UintMax},
     reasons    |-> {"insufficient proof"},
     startTimes |-> {1},
     maxRequests |-> MaxRequests,
     maxIds     |-> MaxIds]

Deploy(P) ==
    \E sender \in P.deployers, adminArg \in P.adminArgs, timestamp \in P.startTimes :
      LET r == constructor(sender, adminArg) IN
      /\ contractOwner = r.s.owner
      /\ adminWallet = r.s.adminWallet
      /\ verifiers = r.s.verifiers
      /\ identities = r.s.identities
      /\ walletToId = r.s.walletToId
      /\ hashToId = r.s.hashToId
      /\ requestCounter = r.s.requestCounter
      /\ idRequests = r.s.idRequests
      /\ userRequests = r.s.userRequests
      /\ idCounter = r.s.idCounter
      /\ now = timestamp

ChangeAdmin(P) ==
    \E sender \in P.senders, newAdmin \in P.addresses :
      Commit(changeAdmin(Storage, sender, newAdmin))

TransferOwnership(P) ==
    \E sender \in P.senders, newOwner \in P.addresses :
      Commit(transferOwnership(Storage, sender, newOwner))

RenounceOwnership(P) ==
    \E sender \in P.senders :
      Commit(renounceOwnership(Storage, sender))

AddVerifier(P) ==
    \E sender \in P.senders, verifier \in P.addresses :
      Commit(addVerifier(Storage, sender, verifier))

RemoveVerifier(P) ==
    \E sender \in P.senders, verifier \in P.addresses :
      Commit(removeVerifier(Storage, sender, verifier))

RequestIdentity(P) ==
    \E sender \in P.senders, ipfsHash \in P.ipfsHashes, idType \in P.idTypes,
       uniqueHash \in P.hashes :
      LET r == requestIdentity(Storage, sender, ipfsHash, idType, uniqueHash, now) IN
      /\ r.err # "" \/ requestCounter < P.maxRequests
      /\ Commit(r)

ApproveIDRequest(P) ==
    \E sender \in P.senders, requestId \in 0..(P.maxRequests + 1),
       expiryDuration \in P.expiries :
      LET r == approveIDRequest(Storage, sender, requestId, expiryDuration, now) IN
      /\ r.err # "" \/ idCounter < P.maxIds
      /\ Commit(r)

RejectIDRequest(P) ==
    \E sender \in P.senders, requestId \in 0..(P.maxRequests + 1), reason \in P.reasons :
      Commit(rejectIDRequest(Storage, sender, requestId, reason))

CreateIdentity(P) ==
    \E sender \in P.senders, idOwner \in P.addresses, ipfsHash \in P.ipfsHashes,
       expiryDuration \in P.expiries, idType \in P.idTypes, uniqueHash \in P.hashes :
      LET r == createIdentity(Storage, sender, idOwner, ipfsHash, expiryDuration, idType,
                              uniqueHash, now) IN
      /\ r.err # "" \/ idCounter < P.maxIds
      /\ Commit(r)

VerifyIdentity(P) ==
    \E sender \in P.senders, idNumber \in 0..(P.maxIds + 1) :
      Commit(verifyIdentity(Storage, sender, idNumber))

RevokeIdentity(P) ==
    \E sender \in P.senders, idNumber \in 0..(P.maxIds + 1) :
      Commit(revokeIdentity(Storage, sender, idNumber))

UpdateIdentityData(P) ==
    \E sender \in P.senders, idNumber \in 0..(P.maxIds + 1), newIpfsHash \in P.ipfsHashes :
      Commit(updateIdentityData(Storage, sender, idNumber, newIpfsHash))

\* block.timestamp of a later block; a uint256, so it cannot pass UintMax.
Tick ==
    /\ now < UintMax
    /\ now' = now + 1
    /\ UNCHANGED storageVars

Init == Deploy(Registry)

Next ==
    \/ ChangeAdmin(Registry)
    \/ AddVerifier(Registry)
    \/ RemoveVerifier(Registry)
    \/ RequestIdentity(Registry)
    \/ ApproveIDRequest(Registry)
    \/ RejectIDRequest(Registry)
    \/ CreateIdentity(Registry)
    \/ VerifyIdentity(Registry)
    \/ RevokeIdentity(Registry)
    \/ UpdateIdentityData(Registry)

Spec == Init /\ [][Next]_vars

\* The same contract with three accounts and transferable ownership, over a
\* shorter ledger.
Roles ==
    [deployers  |-> {1},
     adminArgs  |-> {0, 1, 2},
     senders    |-> {1, 2, 3},
     addresses  |-> {0, 1, 2, 3},
     ipfsHashes |-> {"QmA"},
     idTypes    |-> {"passport"},
     hashes     |-> {1},
     expiries   |-> {0, UintMax},
     reasons    |-> {"insufficient proof"},
     startTimes |-> {1},
     maxRequests |-> RolesMaxRequests,
     maxIds     |-> RolesMaxIds]

InitRoles == Deploy(Roles)

NextRoles ==
    \/ ChangeAdmin(Roles)
    \/ TransferOwnership(Roles)
    \/ RenounceOwnership(Roles)
    \/ AddVerifier(Roles)
    \/ RemoveVerifier(Roles)
    \/ RequestIdentity(Roles)
    \/ ApproveIDRequest(Roles)
    \/ RejectIDRequest(Roles)
    \/ CreateIdentity(Roles)
    \/ VerifyIdentity(Roles)
    \/ RevokeIdentity(Roles)
    \/ UpdateIdentityData(Roles)

SpecRoles == InitRoles /\ [][NextRoles]_vars

\* The same contract with the block timestamp advancing between transactions
\* and identities minted with and without an expiry.
Clock ==
    [deployers  |-> {1},
     adminArgs  |-> {1},
     senders    |-> {1, 2},
     addresses  |-> {0, 1, 2},
     ipfsHashes |-> {"QmA"},
     idTypes    |-> {"passport"},
     hashes     |-> {1, 2},
     expiries   |-> {0, 1},
     reasons    |-> {"insufficient proof"},
     startTimes |-> {1},
     maxRequests |-> ClockMaxRequests,
     maxIds     |-> ClockMaxIds]

InitClock == Deploy(Clock)

NextClock ==
    \/ Tick
    \/ RequestIdentity(Clock)
    \/ ApproveIDRequest(Clock)
    \/ RejectIDRequest(Clock)
    \/ CreateIdentity(Clock)
    \/ VerifyIdentity(Clock)
    \/ RevokeIdentity(Clock)
    \/ UpdateIdentityData(Clock)

SpecClock == InitClock /\ [][NextClock]_vars

\* The same contract with two metadata pointers, so that updateIdentityData
\* changes what an identity stores.
Data ==
    [deployers  |-> {1},
     adminArgs  |-> {1},
     senders    |-> {1, 2},
     addresses  |-> {0, 1, 2},
     ipfsHashes |-> {"QmA", "QmB"},
     idTypes    |-> {"passport"},
     hashes     |-> {1, 2},
     expiries   |-> {0, 1},
     reasons    |-> {"insufficient proof"},
     startTimes |-> {1},
     maxRequests |-> DataMaxRequests,
     maxIds     |-> DataMaxIds]

InitData == Deploy(Data)

NextData ==
    \/ RequestIdentity(Data)
    \/ ApproveIDRequest(Data)
    \/ RejectIDRequest(Data)
    \/ CreateIdentity(Data)
    \/ VerifyIdentity(Data)
    \/ RevokeIdentity(Data)
    \/ UpdateIdentityData(Data)

SpecData == InitData /\ [][NextData]_vars

\* ================================================================ properties
\* Error kinds of the specification, as sets of the contract's revert messages.
AuthorizationError ==
    {ErrNotOwner, ErrNotVerifier, ErrNotAdmin, ErrNotAuthorized, ErrNotOwnerOrAdmin,
     ErrRemoveAdmin, ErrRemoveOwner}
DuplicateIdentityError == {ErrWalletHasId, ErrRequesterHasId, ErrWalletHasIdMinted}
DuplicateFingerprintError == {ErrHashExists, ErrUniqueHashExists}
DuplicatePendingRequestError == {ErrHashPending}
NotFoundError == {ErrNoRequest, ErrNoIdentity}
InvalidStateError == {ErrNotPending, ErrAlreadyVerified}
InvalidArgumentError == {ErrInvalidAddress, ErrInvalidOwner}

\* Ids and values the properties quantify over: every id issued so far, 0, and
\* one id that was never issued.
IdNumbers  == 0..(idCounter + 1)
RequestIds == 0..(requestCounter + 1)
Senders    == AllAddresses \ {ZeroAddress}   \* every possible msg.sender
IpfsArgs   == {"QmA", "QmB"}
IdTypeArgs == {"passport", "personal_id"}
ExpiryArgs == {0, 1, UintMax}
ReasonArgs == {"insufficient proof"}

\* Identity i exists: getIdentity(i) does not revert.
IdentityExists(i)  == getIdentity(Storage, i).err = ""
RequestExists(r)   == getRequestDetails(Storage, r).err = ""
ExistingIds        == {i \in IdNumbers : IdentityExists(i)}
ExistingRequests   == {r \in RequestIds : RequestExists(r)}
PendingRequests    == {r \in ExistingRequests : idRequests[r].isPending}

\* ---------------------------------------------------------------- C1
\* C1: in every reachable state, for every address a, at most one existing
\* Identity has owner = a.
C1_OneIdentityPerOwner ==
    \A a \in AllAddresses :
      Cardinality({i \in ExistingIds : identities[i].owner = a}) <= 1

\* Two identities exist at once, one of them minted by approving a request,
\* and createIdentity for an address that owns one is refused.
C1_Witness ==
    /\ Cardinality(ExistingIds) = 2
    /\ \E r \in ExistingRequests : idRequests[r].isApproved
    /\ \E i \in ExistingIds, sender \in Senders, h \in AllHashes :
         createIdentity(Storage, sender, identities[i].owner, "QmA", 0, "passport", h, now).err
           = ErrWalletHasIdMinted

\* ---------------------------------------------------------------- C2
\* C2: in every reachable state, for every fingerprint f, at most one existing
\* Identity carries fingerprint f.
C2_OneIdentityPerFingerprint ==
    \A f \in AllHashes :
      Cardinality({i \in ExistingIds : identities[i].uniqueIdentityHash = f}) <= 1

\* An identity with fingerprint f exists while another caller's request with
\* the same f is pending, and approving that request is refused.
C2_Witness ==
    \E i \in ExistingIds, r \in PendingRequests, sender \in Senders :
      /\ idRequests[r].uniqueIdentityHash = identities[i].uniqueIdentityHash
      /\ idRequests[r].requester # identities[i].owner
      /\ ~hasIdentity(Storage, idRequests[r].requester)
      /\ approveIDRequest(Storage, sender, r, 0, now).err = ErrHashExists

\* ---------------------------------------------------------------- C3
\* C3: the two indexes agree with the Identity Ledger: walletToId[a] = i with
\* i # 0 exactly when Identity i exists and has owner a, and hashToId[f] = i
\* with i # 0 exactly when Identity i exists and has fingerprint f.
C3_IndexesConsistent ==
    /\ \A a \in AllAddresses, i \in IdNumbers \ {0} :
         (getIdentityByOwner(Storage, a) = i)
           <=> (IdentityExists(i) /\ identities[i].owner = a)
    /\ \A f \in AllHashes, i \in IdNumbers \ {0} :
         (getIdentityByHash(Storage, f) = i)
           <=> (IdentityExists(i) /\ identities[i].uniqueIdentityHash = f)

\* ---------------------------------------------------------------- C4
\* C4: every existing Request has exactly one of isPending, isApproved,
\* isRejected set (so isApproved and isRejected are never both set).
C4_ExactlyOneStatus ==
    \A r \in ExistingRequests :
      LET q == idRequests[r] IN
      /\ Cardinality({k \in {"p", "a", "r"} :
                        \/ k = "p" /\ q.isPending
                        \/ k = "a" /\ q.isApproved
                        \/ k = "r" /\ q.isRejected}) = 1
      /\ ~(q.isApproved /\ q.isRejected)

\* One request has been approved and another rejected.
C4_Witness ==
    /\ \E r \in ExistingRequests : idRequests[r].isApproved
    /\ \E r \in ExistingRequests : idRequests[r].isRejected

\* ---------------------------------------------------------------- C5
\* A resolved request keeps its whole record in the next state.
C5_StatusFrozen ==
    \A r \in ExistingRequests :
      ~idRequests[r].isPending => idRequests'[r] = idRequests[r]

\* The admin's approve / reject of a resolved request reverts with
\* "request is not pending" and changes nothing.
C5_ResolvedCallsFail ==
    \A r \in ExistingRequests, sender \in Senders :
      (~idRequests[r].isPending /\ sender = adminWallet) =>
        /\ \A d \in ExpiryArgs :
             approveIDRequest(Storage, sender, r, d, now) = Revert(Storage, ErrNotPending)
        /\ \A reason \in ReasonArgs :
             rejectIDRequest(Storage, sender, r, reason) = Revert(Storage, ErrNotPending)

\* C5: a Request is resolved at most once: once approved or rejected its
\* status never changes again, and every later approveRequest / rejectRequest
\* on it by the admin fails with InvalidStateError and mints no Identity.
C5_ResolvedOnce ==
    /\ ErrNotPending \in InvalidStateError
    /\ [](C5_ResolvedCallsFail)
    /\ [][C5_StatusFrozen]_vars

\* An approved and a rejected request exist while an admin account exists.
C5_Witness ==
    /\ adminWallet # ZeroAddress
    /\ \E r \in ExistingRequests : idRequests[r].isApproved
    /\ \E r \in ExistingRequests : idRequests[r].isRejected /\ requestCounter = 2

\* ---------------------------------------------------------------- C6
\* C6: every role-gated entry point fails fast on authorization: changeAdmin
\* by a non-owner, addVerifier / removeVerifier / approveRequest /
\* rejectRequest / createIdentityDirect by a non-admin and verify by a
\* non-verifier revert with an AuthorizationError whatever the arguments (also
\* for request ids that do not exist), changing nothing and emitting nothing.
C6_AuthorizationFirst ==
    /\ {ErrNotOwner, ErrNotAdmin, ErrNotVerifier} \subseteq AuthorizationError
    /\ \A sender \in Senders :
         /\ sender # contractOwner =>
              \A a \in AllAddresses :
                changeAdmin(Storage, sender, a) = Revert(Storage, ErrNotOwner)
         /\ sender # adminWallet =>
              /\ \A a \in AllAddresses :
                   /\ addVerifier(Storage, sender, a) = Revert(Storage, ErrNotAdmin)
                   /\ removeVerifier(Storage, sender, a) = Revert(Storage, ErrNotAdmin)
              /\ \A r \in RequestIds :
                   /\ \A d \in ExpiryArgs :
                        approveIDRequest(Storage, sender, r, d, now)
                          = Revert(Storage, ErrNotAdmin)
                   /\ \A reason \in ReasonArgs :
                        rejectIDRequest(Storage, sender, r, reason)
                          = Revert(Storage, ErrNotAdmin)
              /\ \A a \in AllAddresses, p \in IpfsArgs, d \in ExpiryArgs,
                    ty \in IdTypeArgs, h \in AllHashes :
                   createIdentity(Storage, sender, a, p, d, ty, h, now)
                     = Revert(Storage, ErrNotAdmin)
         /\ ~verifiers[sender] =>
              \A i \in IdNumbers :
                verifyIdentity(Storage, sender, i) = Revert(Storage, ErrNotVerifier)

\* Ownership has moved away from the deployer, a request is pending and an
\* identity exists, and an account without any role is refused on the pending
\* request, on a request id that does not exist, and on the existing identity.
C6_Witness ==
    /\ contractOwner # 1
    /\ \E sender \in Senders, r \in PendingRequests, i \in ExistingIds :
         /\ sender # contractOwner /\ sender # adminWallet /\ ~verifiers[sender]
         /\ approveIDRequest(Storage, sender, r, 0, now).err = ErrNotAdmin
         /\ approveIDRequest(Storage, sender, requestCounter + 1, 0, now).err = ErrNotAdmin
         /\ verifyIdentity(Storage, sender, i).err = ErrNotVerifier
         /\ changeAdmin(Storage, sender, sender).err = ErrNotOwner

\* ---------------------------------------------------------------- C7
\* A failed call leaves the storage as it was and emits no event.
NothingChanged(r) == r.err # "" => (r.s = Storage /\ r.logs = <<>>)

\* C7: every operation is all-or-nothing: when a mutating call fails any
\* precondition, the Role Store, Request Ledger, Identity Ledger, both
\* indexes, both counters and the Event Log are exactly as before the call.
C7_AllOrNothing ==
    \A sender \in Senders :
      /\ \A a \in AllAddresses :
           /\ NothingChanged(changeAdmin(Storage, sender, a))
           /\ NothingChanged(transferOwnership(Storage, sender, a))
           /\ NothingChanged(addVerifier(Storage, sender, a))
           /\ NothingChanged(removeVerifier(Storage, sender, a))
      /\ NothingChanged(renounceOwnership(Storage, sender))
      /\ \A p \in IpfsArgs, ty \in IdTypeArgs, h \in AllHashes :
           NothingChanged(requestIdentity(Storage, sender, p, ty, h, now))
      /\ \A r \in RequestIds :
           /\ \A d \in ExpiryArgs :
                NothingChanged(approveIDRequest(Storage, sender, r, d, now))
           /\ \A reason \in ReasonArgs :
                NothingChanged(rejectIDRequest(Storage, sender, r, reason))
      /\ \A a \in AllAddresses, p \in IpfsArgs, d \in ExpiryArgs,
            ty \in IdTypeArgs, h \in AllHashes :
           NothingChanged(createIdentity(Storage, sender, a, p, d, ty, h, now))
      /\ \A i \in IdNumbers :
           /\ NothingChanged(verifyIdentity(Storage, sender, i))
           /\ NothingChanged(revokeIdentity(Storage, sender, i))
           /\ \A p \in IpfsArgs :
                NothingChanged(updateIdentityData(Storage, sender, i, p))

\* With an identity minted and a request pending, a createIdentity call that
\* passes all three checks fails late, on the expiry overflow, and a
\* requestIdentity call fails on the pending duplicate.
C7_Witness ==
    /\ idCounter >= 1
    /\ \E a \in AllAddresses, h \in AllHashes :
         createIdentity(Storage, adminWallet, a, "QmA", UintMax, "passport", h, now).err
           = ErrPanicOverflow
    /\ \E r \in PendingRequests :
         requestIdentity(Storage, idRequests[r].requester, "QmB", "passport",
                         idRequests[r].uniqueIdentityHash, now).err = ErrHashPending

\* ---------------------------------------------------------------- C8
\* Caller c has a pending request carrying fingerprint f.
HasPendingWith(c, f) ==
    \E r \in PendingRequests :
      idRequests[r].requester = c /\ idRequests[r].uniqueIdentityHash = f

\* No caller has two pending requests with the same fingerprint.
NoTwoPendingAlike ==
    \A r1 \in PendingRequests, r2 \in PendingRequests :
      (/\ r1 # r2
       /\ idRequests[r1].requester = idRequests[r2].requester)
        => idRequests[r1].uniqueIdentityHash # idRequests[r2].uniqueIdentityHash

\* C8 as stated: submitRequest by c with f fails with
\* DuplicatePendingRequestError whenever c already has a pending request
\* carrying f; no caller has two pending requests with the same fingerprint.
\* (Looked at only where both indexes agree with the ledger, so that a
\* violation does not rest on an identity minted to the zero address.)
C8_Original ==
    /\ NoTwoPendingAlike
    /\ \A c \in Senders, f \in AllHashes, p \in IpfsArgs, ty \in IdTypeArgs :
         (HasPendingWith(c, f) /\ C3_IndexesConsistent) =>
           requestIdentity(Storage, c, p, ty, f, now).err \in DuplicatePendingRequestError

\* C8 (amended): submitRequest by c with f fails whenever c already has a
\* pending request carrying f, with DuplicatePendingRequestError when c owns
\* no Identity and f is not registered, and otherwise with the error of the
\* earlier check (DuplicateIdentityError, else DuplicateFingerprintError); no
\* caller has two pending requests with the same fingerprint.
C8_PendingDuplicateRefused ==
    /\ NoTwoPendingAlike
    /\ \A c \in Senders, f \in AllHashes, p \in IpfsArgs, ty \in IdTypeArgs :
         HasPendingWith(c, f) =>
           LET r == requestIdentity(Storage, c, p, ty, f, now) IN
           /\ r.s = Storage
           /\ r.err \in (DuplicatePendingRequestError \cup DuplicateIdentityError
                           \cup DuplicateFingerprintError)
           /\ r.err \in DuplicateIdentityError <=> hasIdentity(Storage, c)
           /\ r.err \in DuplicateFingerprintError
                <=> (~hasIdentity(Storage, c) /\ isHashRegistered(Storage, f))

\* A caller with a pending request for f, no identity and f unregistered
\* submits f again and gets the pending-duplicate error, while the same
\* caller has a second pending request with the other fingerprint.
C8_Witness ==
    \E c \in Senders, f \in AllHashes :
      /\ HasPendingWith(c, f)
      /\ requestIdentity(Storage, c, "QmA", "passport", f, now).err = ErrHashPending
      /\ \E g \in AllHashes \ {f} : HasPendingWith(c, g)

\* ---------------------------------------------------------------- C9
OwnsIdentity(c) == \E i \in ExistingIds : identities[i].owner = c
FingerprintBound(f) == \E i \in ExistingIds : identities[i].uniqueIdentityHash = f

\* C9 as stated: submitRequest fails with DuplicateIdentityError whenever the
\* caller owns an Identity and with DuplicateFingerprintError whenever the
\* fingerprint is bound to a minted Identity, appending no Request.
C9_Original ==
    \A c \in Senders, f \in AllHashes, p \in IpfsArgs, ty \in IdTypeArgs :
      LET r == requestIdentity(Storage, c, p, ty, f, now) IN
      /\ OwnsIdentity(c) => (r.err \in DuplicateIdentityError /\ r.s = Storage)
      /\ FingerprintBound(f) => (r.err \in DuplicateFingerprintError /\ r.s = Storage)

\* C9 (amended): submitRequest fails with DuplicateIdentityError whenever the
\* caller owns an Identity, and with DuplicateFingerprintError whenever the
\* fingerprint is bound to a minted Identity and the caller owns none; in both
\* cases no Request is appended and the request counter is unchanged.
C9_DuplicateSubmitRefused ==
    \A c \in Senders, f \in AllHashes, p \in IpfsArgs, ty \in IdTypeArgs :
      LET r == requestIdentity(Storage, c, p, ty, f, now) IN
      /\ OwnsIdentity(c) => (r.err \in DuplicateIdentityError /\ r.s = Storage)
      /\ (~OwnsIdentity(c) /\ FingerprintBound(f)) =>
           (r.err \in DuplicateFingerprintError /\ r.s = Storage)

\* A caller whose request was approved owns the identity and is refused a
\* request for the other, unbound fingerprint; the other caller is refused
\* the bound fingerprint.
C9_Witness ==
    \E r \in ExistingRequests, c2 \in Senders, g \in AllHashes :
      /\ idRequests[r].isApproved
      /\ OwnsIdentity(idRequests[r].requester)
      /\ ~FingerprintBound(g)
      /\ requestIdentity(Storage, idRequests[r].requester, "QmA", "passport", g, now).err
           = ErrWalletHasId
      /\ ~OwnsIdentity(c2)
      /\ requestIdentity(Storage, c2, "QmA", "passport",
                         idRequests[r].uniqueIdentityHash, now).err = ErrHashExists

\* ---------------------------------------------------------------- C10
\* C10: approveRequest re-validates both uniqueness invariants at approval
\* time: if the requester of a pending request meanwhile owns an Identity, or
\* the request's fingerprint is bound to an Identity, the admin's approval
\* fails with DuplicateIdentityError / DuplicateFingerprintError, mints
\* nothing, and the request stays pending.
C10_ApprovalRevalidates ==
    \A r \in PendingRequests, sender \in Senders, d \in ExpiryArgs :
      LET requester == idRequests[r].requester
          f == idRequests[r].uniqueIdentityHash
          res == approveIDRequest(Storage, sender, r, d, now)
      IN
      (sender = adminWallet /\ (OwnsIdentity(requester) \/ FingerprintBound(f))) =>
        /\ res.err \in (DuplicateIdentityError \cup DuplicateFingerprintError)
        /\ OwnsIdentity(requester) => res.err \in DuplicateIdentityError
        /\ ~OwnsIdentity(requester) => res.err \in DuplicateFingerprintError
        /\ res.s = Storage
        /\ res.logs = <<>>

\* Two requests are pending; since their submission the requester of one got
\* an identity by createIdentity and the fingerprint of the other got bound:
\* the admin's approval of the first fails on the requester, of the second on
\* the fingerprint.
C10_Witness ==
    \E r1 \in PendingRequests, r2 \in PendingRequests :
      /\ adminWallet # ZeroAddress
      /\ OwnsIdentity(idRequests[r1].requester)
      /\ ~FingerprintBound(idRequests[r1].uniqueIdentityHash)
      /\ approveIDRequest(Storage, adminWallet, r1, 0, now).err = ErrRequesterHasId
      /\ ~OwnsIdentity(idRequests[r2].requester)
      /\ FingerprintBound(idRequests[r2].uniqueIdentityHash)
      /\ approveIDRequest(Storage, adminWallet, r2, 0, now).err = ErrHashExists

\* ---------------------------------------------------------------- C11
\* Requests r1 and r2 are both pending, come from different callers and carry
\* the same fingerprint.
RacingPair(r1, r2) ==
    /\ r1 \in PendingRequests /\ r2 \in PendingRequests
    /\ idRequests[r1].requester # idRequests[r2].requester
    /\ idRequests[r1].uniqueIdentityHash = idRequests[r2].uniqueIdentityHash

\* While c1's request for f is pending, another caller c2 (no identity, f not
\* registered, no pending request of its own for f) submits f successfully and
\* afterwards both requests are pending.
BothAccepted ==
    \A r1 \in PendingRequests, c2 \in Senders, p \in IpfsArgs, ty \in IdTypeArgs :
      LET f == idRequests[r1].uniqueIdentityHash
          res == requestIdentity(Storage, c2, p, ty, f, now)
      IN
      (/\ c2 # idRequests[r1].requester
       /\ ~hasIdentity(Storage, c2)
       /\ ~isHashRegistered(Storage, f)
       /\ ~HasPendingWith(c2, f)) =>
        /\ res.err = ""
        /\ requestAt(res.s, res.ret).isPending
        /\ requestAt(res.s, res.ret).requester = c2
        /\ requestAt(res.s, res.ret).uniqueIdentityHash = f
        /\ requestAt(res.s, r1) = idRequests[r1]

\* Of two racing requests the one the admin approves first mints the Identity
\* (requester without identity, fingerprint free, expiry not overflowing).
FirstApprovalMints ==
    \A r1 \in PendingRequests, r2 \in PendingRequests, sender \in Senders,
       d \in ExpiryArgs :
      LET res == approveIDRequest(Storage, sender, r1, d, now) IN
      (/\ RacingPair(r1, r2)
       /\ sender = adminWallet
       /\ ~hasIdentity(Storage, idRequests[r1].requester)
       /\ ~isHashRegistered(Storage, idRequests[r1].uniqueIdentityHash)
       /\ (d = 0 \/ now + d <= UintMax)) =>
        /\ res.err = ""
        /\ getIdentity(res.s, res.ret).err = ""
        /\ identityAt(res.s, res.ret).owner = idRequests[r1].requester
        /\ identityAt(res.s, res.ret).uniqueIdentityHash = idRequests[r1].uniqueIdentityHash
        /\ requestAt(res.s, r2).isPending

\* C11 as stated: two callers' requests with the same fingerprint are both
\* accepted and pending together; the first approved mints the Identity, and
\* while an Identity of another owner carries the fingerprint the admin's
\* approval of the other request fails with DuplicateFingerprintError.
C11_Original ==
    /\ BothAccepted
    /\ FirstApprovalMints
    /\ \A r2 \in PendingRequests, i \in ExistingIds, sender \in Senders, d \in ExpiryArgs :
         (/\ sender = adminWallet
          /\ identities[i].uniqueIdentityHash = idRequests[r2].uniqueIdentityHash
          /\ identities[i].owner # idRequests[r2].requester) =>
           approveIDRequest(Storage, sender, r2, d, now).err \in DuplicateFingerprintError

\* C11 (amended): two callers' requests with the same fingerprint are both
\* accepted and pending together; the first approved mints the Identity, and
\* while an Identity of another owner carries the fingerprint the admin's
\* approval of the other request fails and leaves it pending: with
\* DuplicateFingerprintError when its requester owns no Identity, and with
\* DuplicateIdentityError (the earlier check) when its requester has meanwhile
\* been given an Identity.
C11_SameFingerprintRace ==
    /\ BothAccepted
    /\ FirstApprovalMints
    /\ \A r2 \in PendingRequests, i \in ExistingIds, sender \in Senders, d \in ExpiryArgs :
         LET res == approveIDRequest(Storage, sender, r2, d, now) IN
         (/\ sender = adminWallet
          /\ identities[i].uniqueIdentityHash = idRequests[r2].uniqueIdentityHash
          /\ identities[i].owner # idRequests[r2].requester) =>
           /\ res.s = Storage
           /\ IF hasIdentity(Storage, idRequests[r2].requester)
              THEN res.err \in DuplicateIdentityError
              ELSE res.err \in DuplicateFingerprintError

\* Two callers submitted the same fingerprint; one request was approved and
\* its Identity exists; the other is still pending, its requester owns
\* nothing, and approving it fails the fingerprint check.
C11_Witness ==
    \E r1 \in ExistingRequests, r2 \in PendingRequests, i \in ExistingIds :
      /\ adminWallet # ZeroAddress
      /\ idRequests[r1].isApproved
      /\ idRequests[r1].requester # idRequests[r2].requester
      /\ idRequests[r1].uniqueIdentityHash = idRequests[r2].uniqueIdentityHash
      /\ identities[i].owner = idRequests[r1].requester
      /\ identities[i].uniqueIdentityHash = idRequests[r2].uniqueIdentityHash
      /\ ~hasIdentity(Storage, idRequests[r2].requester)
      /\ approveIDRequest(Storage, adminWallet, r2, 0, now).err = ErrHashExists

\* ---------------------------------------------------------------- C12
\* The callers revoke admits for Identity i: its owner, a current verifier,
\* the current admin, the contract owner.
MayRevoke(sender, i) ==
    \/ sender = identities[i].owner
    \/ isVerifier(Storage, sender)
    \/ isAdmin(Storage, sender)
    \/ sender = contractOwner

\* C12: revoke(i) on an existing Identity succeeds exactly when the caller is
\* the Identity's owner, a current verifier, the current admin or the contract
\* owner; by any other address it fails with AuthorizationError and the
\* Identity and both indexes are unchanged; on a non-existent id it fails with
\* NotFoundError.
C12_RevokeAuthorization ==
    \A sender \in Senders, i \in IdNumbers :
      LET res == revokeIdentity(Storage, sender, i) IN
      IF IdentityExists(i)
      THEN /\ (res.err = "") <=> MayRevoke(sender, i)
           /\ ~MayRevoke(sender, i) =>
                /\ res.err \in AuthorizationError
                /\ res.s.identities = identities
                /\ res.s.walletToId = walletToId
                /\ res.s.hashToId = hashToId
      ELSE res.err \in NotFoundError /\ res.s = Storage

\* An Identity exists; the contract owner is neither its owner, a verifier
\* nor the admin and may revoke it; a third account with no role is refused;
\* an id never issued is not found.
C12_Witness ==
    \E i \in ExistingIds, x \in Senders :
      /\ contractOwner # ZeroAddress /\ ~isVerifier(Storage, contractOwner)
      /\ contractOwner # identities[i].owner
      /\ contractOwner # adminWallet
      /\ revokeIdentity(Storage, contractOwner, i).err = ""
      /\ ~MayRevoke(x, i)
      /\ revokeIdentity(Storage, x, i).err = ErrNotAuthorized
      /\ revokeIdentity(Storage, x, idCounter + 1).err = ErrNoIdentity

\* ---------------------------------------------------------------- C13
\* C13: after a successful revoke(i) of an Identity with owner a and
\* fingerprint f, ownerHasIdentity(a) is false, identityIdOfOwner(a) = 0,
\* identityIdOfFingerprint(f) = 0, getIdentity(i) fails with NotFoundError,
\* and an immediately following createIdentityDirect by the admin for the
\* same a and f succeeds.
C13_RevokeFreesSlots ==
    \A sender \in Senders, i \in ExistingIds :
      LET a == identities[i].owner
          f == identities[i].uniqueIdentityHash
          res == revokeIdentity(Storage, sender, i)
      IN
      res.err = "" =>
        /\ ~hasIdentity(res.s, a)
        /\ getIdentityByOwner(res.s, a) = 0
        /\ getIdentityByHash(res.s, f) = 0
        /\ getIdentity(res.s, i).err \in NotFoundError
        /\ \A admin \in Senders, p \in IpfsArgs, ty \in IdTypeArgs, d \in ExpiryArgs :
             (isAdmin(res.s, admin) /\ (d = 0 \/ now + d <= UintMax)) =>
               LET c == createIdentity(res.s, admin, a, p, d, ty, f, now) IN
               /\ c.err = ""
               /\ getIdentity(c.s, c.ret).err = ""
               /\ identityAt(c.s, c.ret).owner = a
               /\ identityAt(c.s, c.ret).uniqueIdentityHash = f
               /\ getIdentityByOwner(c.s, a) = c.ret
               /\ getIdentityByHash(c.s, f) = c.ret

\* Identity 1 was revoked and identity 2 exists; the admin's revoke of 2
\* succeeds and the createIdentity for the same owner and fingerprint that
\* follows it succeeds.
C13_Witness ==
    /\ idCounter = 2
    /\ 1 \in DOMAIN identities /\ identities[1] = NoIdentity
    /\ IdentityExists(2)
    /\ adminWallet # ZeroAddress
    /\ LET res == revokeIdentity(Storage, adminWallet, 2) IN
       /\ res.err = ""
       /\ createIdentity(res.s, adminWallet, identities[2].owner, "QmA", 0, "passport",
                         identities[2].uniqueIdentityHash, now).err = ""

\* ---------------------------------------------------------------- C14
\* One step never brings an issued id number back: the id counter does not
\* decrease, an issued id without Identity has none in the next state, and an
\* Identity that appears does so under the next unused id number, for an
\* owner and a fingerprint whose index slots were free.
C14_NoReuseStep ==
    /\ idCounter' >= idCounter
    /\ \A i \in 1..(idCounter + 1) :
         /\ (i <= idCounter /\ ~IdentityExists(i)) =>
              identityAt(Storage', i).owner = ZeroAddress
         /\ (~IdentityExists(i) /\ identityAt(Storage', i).owner # ZeroAddress) =>
              /\ i = idCounter + 1
              /\ idCounter' = i
              /\ \A j \in 1..idCounter : j < i
              /\ walletToId[identityAt(Storage', i).owner] = 0
              /\ hashToId[identityAt(Storage', i).uniqueIdentityHash] = 0

\* Every Identity sits under an id number that has been issued.
C14_IssuedOnly == \A i \in ExistingIds : 1 <= i /\ i <= idCounter

\* C14: Identity id numbers are never reused: once Identity i has been
\* revoked no later operation makes an Identity exist under i again; an
\* Identity created afterwards for the same owner or fingerprint gets a
\* strictly larger id, and the creation succeeds only when the index slots
\* were free (freed by the revocation).
C14_IdsNeverReused ==
    /\ [](C14_IssuedOnly)
    /\ [][C14_NoReuseStep]_vars

\* Identity 1 was revoked, a later Identity exists under id 2, and the slots
\* of id 1 stay empty.
C14_Witness ==
    /\ idCounter = 2
    /\ 1 \in DOMAIN identities /\ identities[1] = NoIdentity
    /\ ~IdentityExists(1)
    /\ IdentityExists(2)
    /\ walletToId[identities[2].owner] = 2
    /\ hashToId[identities[2].uniqueIdentityHash] = 2

\* ---------------------------------------------------------------- C15
Timestamps == 0..UintMax            \* every value block.timestamp can take
DurationArgs == 0..UintMax          \* every value an expiryDuration can take

\* C15: isValid is total and equals the composite predicate: for every id
\* (0, never-issued and revoked ids included) and every clock value it
\* returns a boolean, true exactly when Identity id exists and isVerified and
\* (expiresAt = 0 or now <= expiresAt).
C15_IsValidComposite ==
    \A i \in IdNumbers, t \in Timestamps :
      /\ isIdentityValid(Storage, i, t) \in BOOLEAN
      /\ isIdentityValid(Storage, i, t)
           <=> (/\ IdentityExists(i)
                /\ identityAt(Storage, i).isVerified
                /\ (identityAt(Storage, i).expiresAt = 0
                      \/ t <= identityAt(Storage, i).expiresAt))

\* Identity 1 was revoked, Identity 2 exists with an expiry the clock has
\* passed: isValid is false for 0, for both and for the id not yet issued,
\* and was true for Identity 2 at its creation time.
C15_Witness ==
    /\ idCounter = 2
    /\ 1 \in DOMAIN identities /\ identities[1] = NoIdentity
    /\ IdentityExists(2)
    /\ identities[2].expiresAt > 0 /\ now > identities[2].expiresAt
    /\ \A i \in 0..3 : ~isIdentityValid(Storage, i, now)
    /\ isIdentityValid(Storage, 2, identities[2].createdAt)

\* ---------------------------------------------------------------- C16
\* C16 as stated: an Identity created by createIdentityDirect at time t with
\* expiryDuration d > 0 is valid at t and, with no call in between, not valid
\* once the clock has advanced by d, that is at time t + d.
C16_Original ==
    /\ \A sender \in Senders, a \in AllAddresses, p \in IpfsArgs, ty \in IdTypeArgs,
          f \in AllHashes, d \in DurationArgs :
         LET res == createIdentity(Storage, sender, a, p, d, ty, f, now) IN
         (res.err = "" /\ d > 0 /\ getIdentity(res.s, res.ret).err = "") =>
           /\ isIdentityValid(res.s, res.ret, now)
           /\ ~isIdentityValid(res.s, res.ret, now + d)
    /\ \A i \in ExistingIds :
         (identities[i].expiresAt > 0 /\ now = identities[i].expiresAt) =>
           ~isIdentityValid(Storage, i, now)

\* C16 (amended): an Identity created by createIdentityDirect at time t with
\* expiryDuration d > 0 has expiresAt = t + d; with no revoke in between
\* isValid is true at every time from t to t + d inclusive and false at every
\* time after t + d.
C16_ExpiryBoundary ==
    /\ \A sender \in Senders, a \in AllAddresses, p \in IpfsArgs, ty \in IdTypeArgs,
          f \in AllHashes, d \in DurationArgs :
         LET res == createIdentity(Storage, sender, a, p, d, ty, f, now) IN
         (res.err = "" /\ d > 0 /\ getIdentity(res.s, res.ret).err = "") =>
           /\ identityAt(res.s, res.ret).expiresAt = now + d
           /\ \A t \in Timestamps :
                isIdentityValid(res.s, res.ret, t) <=> t <= now + d
    /\ \A i \in ExistingIds :
         identities[i].expiresAt > 0 =>
           /\ identities[i].createdAt < identities[i].expiresAt
           /\ isIdentityValid(Storage, i, now) <=> now <= identities[i].expiresAt

\* An Identity made by createIdentity at time t with d = 1 exists at clock
\* time t + 1 and isValid still returns true for it.
C16_Witness ==
    \E i \in ExistingIds :
      /\ identities[i].idType = "passport"
      /\ identities[i].expiresAt = identities[i].createdAt + 1
      /\ now = identities[i].expiresAt
      /\ isIdentityValid(Storage, i, now)
      /\ ~isIdentityValid(Storage, i, now + 1)

\* ---------------------------------------------------------------- C17
\* C17: an Identity minted with expiryDuration = 0, by approveRequest or by
\* createIdentityDirect, has expiresAt = 0 and isValid returns true for it at
\* every later clock value for as long as it exists (has not been revoked).
C17_NoExpiryStaysValid ==
    /\ \A sender \in Senders, r \in PendingRequests :
         LET res == approveIDRequest(Storage, sender, r, 0, now) IN
         res.err = "" =>
           /\ getIdentity(res.s, res.ret).err = ""
           /\ identityAt(res.s, res.ret).expiresAt = 0
           /\ \A t \in Timestamps : t >= now => isIdentityValid(res.s, res.ret, t)
    /\ \A sender \in Senders, a \in AllAddresses, p \in IpfsArgs, ty \in IdTypeArgs,
          f \in AllHashes :
         LET res == createIdentity(Storage, sender, a, p, 0, ty, f, now) IN
         res.err = "" =>
           /\ identityAt(res.s, res.ret).expiresAt = 0
           /\ getIdentity(res.s, res.ret).err = "" =>
                \A t \in Timestamps : t >= now => isIdentityValid(res.s, res.ret, t)
    /\ \A i \in ExistingIds :
         identities[i].expiresAt = 0 =>
           \A t \in Timestamps : t >= now => isIdentityValid(Storage, i, t)

\* An Identity minted at time 1 by approving a request with expiryDuration 0
\* still exists when the clock has reached its last value, and is valid.
C17_Witness ==
    \E i \in ExistingIds, r \in ExistingRequests :
      /\ idRequests[r].isApproved
      /\ identities[i].owner = idRequests[r].requester
      /\ identities[i].idType = "personal_id"
      /\ identities[i].expiresAt = 0
      /\ identities[i].createdAt = 1
      /\ now = UintMax
      /\ isIdentityValid(Storage, i, now)

\* ---------------------------------------------------------------- C18
\* C18: in every reachable state removeVerifier(x) fails for every caller
\* whenever x is the current admin address or the current contract owner
\* address, and the verifier set is unchanged by the failed call.
C18_AdminOwnerNotRemovable ==
    \A sender \in Senders, x \in {adminWallet, contractOwner} :
      LET res == removeVerifier(Storage, sender, x) IN
      /\ res.err # ""
      /\ res.s.verifiers = verifiers
      /\ res.s = Storage

\* Ownership has been transferred to an account that the admin then made a
\* verifier; the admin's removal of that owner and of itself are both
\* refused by the dedicated checks.
C18_Witness ==
    /\ contractOwner # 1 /\ contractOwner # ZeroAddress
    /\ adminWallet # ZeroAddress /\ adminWallet # contractOwner
    /\ isVerifier(Storage, contractOwner)
    /\ removeVerifier(Storage, adminWallet, contractOwner).err = ErrRemoveOwner
    /\ removeVerifier(Storage, adminWallet, adminWallet).err = ErrRemoveAdmin

\* ---------------------------------------------------------------- C19
\* Every admin-gated call by account x on storage s is refused as not-admin.
AdminCallsRefused(s, x) ==
    /\ \A a \in AllAddresses :
         /\ addVerifier(s, x, a).err = ErrNotAdmin
         /\ removeVerifier(s, x, a).err = ErrNotAdmin
    /\ \A r \in RequestIds :
         /\ \A d \in ExpiryArgs : approveIDRequest(s, x, r, d, now).err = ErrNotAdmin
         /\ \A reason \in ReasonArgs : rejectIDRequest(s, x, r, reason).err = ErrNotAdmin
    /\ \A a \in AllAddresses, p \in IpfsArgs, d \in ExpiryArgs, ty \in IdTypeArgs,
          h \in AllHashes :
         createIdentity(s, x, a, p, d, ty, h, now).err = ErrNotAdmin

\* C19: changeAdmin(n) by the contract owner with n # address(0) makes n the
\* single admin (isAdmin(n), and isAdmin(x) false for every x # n, so that a
\* previous admin other than n can no longer approve, reject, create
\* identities or manage verifiers) and makes n a verifier if it was not one;
\* changeAdmin with the null address fails with InvalidArgumentError and
\* changes nothing.
C19_ChangeAdmin ==
    /\ ErrInvalidAddress \in InvalidArgumentError
    /\ ErrNotAdmin \in AuthorizationError
    /\ \A sender \in Senders :
         sender = contractOwner =>
           /\ changeAdmin(Storage, sender, ZeroAddress) = Revert(Storage, ErrInvalidAddress)
           /\ \A n \in AllAddresses \ {ZeroAddress} :
                LET res == changeAdmin(Storage, sender, n) IN
                /\ res.err = ""
                /\ getAdmin(res.s) = n
                /\ \A x \in AllAddresses : isAdmin(res.s, x) <=> x = n
                /\ isVerifier(res.s, n)
                /\ \A x \in AllAddresses \ {n} :
                     isVerifier(res.s, x) = isVerifier(Storage, x)
                /\ (adminWallet # n /\ adminWallet \in Senders) =>
                     AdminCallsRefused(res.s, adminWallet)

\* The admin role has moved to account 3, which thereby became a verifier; a
\* request is pending and an account that is still a verifier, but no longer
\* admin, is refused its approval, while the owner's changeAdmin to the null
\* address is refused as invalid.
C19_Witness ==
    /\ adminWallet = 3
    /\ isVerifier(Storage, 3)
    /\ contractOwner # ZeroAddress
    /\ changeAdmin(Storage, contractOwner, ZeroAddress).err = ErrInvalidAddress
    /\ \E r \in PendingRequests, x \in Senders \ {3} :
         /\ isVerifier(Storage, x)
         /\ approveIDRequest(Storage, x, r, 0, now).err = ErrNotAdmin
         /\ approveIDRequest(Storage, 3, r, 0, now).err = ""

\* ---------------------------------------------------------------- C20
\* Event e names `sender` as the account that acted: the verifier of
\* IdentityVerified, revokedBy of IdentityRevoked, the requester of
\* IDRequested, approvedBy / rejectedBy of the request events.  The role
\* events and IdentityCreated have no such field.
CarriesActor(e, sender) ==
    CASE e.name = "IdentityVerified"  -> e.verifier = sender
      [] e.name = "IdentityRevoked"   -> e.revokedBy = sender
      [] e.name = "IDRequested"       -> e.requester = sender
      [] e.name = "IDRequestApproved" -> e.approvedBy = sender
      [] e.name = "IDRequestRejected" -> e.rejectedBy = sender
      [] OTHER -> FALSE

\* A successful call logged at least one event, one of them naming the caller.
Logged(res, sender) ==
    res.err = "" =>
      /\ Len(res.logs) >= 1
      /\ \E k \in 1..Len(res.logs) : CarriesActor(res.logs[k], sender)

\* C20: every successful mutating operation (changeAdmin, addVerifier,
\* removeVerifier, submitRequest, approveRequest, rejectRequest,
\* createIdentityDirect, updateMetadata, verify, revoke) appends at least one
\* event to the Event Log, and that event carries the affected entity id, the
\* acting address and a type tag.
C20_EveryMutationLogged ==
    \A sender \in Senders :
      /\ \A i \in IdNumbers :
           /\ \A p \in IpfsArgs : Logged(updateIdentityData(Storage, sender, i, p), sender)
           /\ Logged(verifyIdentity(Storage, sender, i), sender)
           /\ Logged(revokeIdentity(Storage, sender, i), sender)
      /\ \A p \in IpfsArgs, ty \in IdTypeArgs, h \in AllHashes :
           Logged(requestIdentity(Storage, sender, p, ty, h, now), sender)
      /\ \A r \in RequestIds :
           /\ \A d \in ExpiryArgs :
                Logged(approveIDRequest(Storage, sender, r, d, now), sender)
           /\ \A reason \in ReasonArgs :
                Logged(rejectIDRequest(Storage, sender, r, reason), sender)
      /\ \A a \in AllAddresses :
           /\ Logged(changeAdmin(Storage, sender, a), sender)
           /\ Logged(addVerifier(Storage, sender, a), sender)
           /\ Logged(removeVerifier(Storage, sender, a), sender)
      /\ \A a \in AllAddresses, p \in IpfsArgs, d \in ExpiryArgs,
            ty \in IdTypeArgs, h \in AllHashes :
           Logged(createIdentity(Storage, sender, a, p, d, ty, h, now), sender)

\* ---------------------------------------------------------------- C21
\* The events of call result res include a request-approved event.
HasApprovedEvent(res) ==
    \E k \in 1..Len(res.logs) : res.logs[k].name = "IDRequestApproved"

\* C21: a successful approveRequest appends exactly two events, in this
\* order: the request-approved event (request id, new identity id, approver),
\* then the identity-created event (new identity id, requester); no other
\* operation emits a request-approved event.
C21_ApprovalEventOrder ==
    \A sender \in Senders :
      /\ \A r \in RequestIds, d \in ExpiryArgs :
           LET res == approveIDRequest(Storage, sender, r, d, now) IN
           res.err = "" =>
             /\ Len(res.logs) = 2
             /\ res.logs[1] = EvIDRequestApproved(r, res.ret, sender)
             /\ res.logs[2] = EvIdentityCreated(res.ret, idRequests[r].requester,
                                                "personal_id",
                                                idRequests[r].uniqueIdentityHash)
             /\ res.ret = idCounter + 1
      /\ \A a \in AllAddresses :
           /\ ~HasApprovedEvent(changeAdmin(Storage, sender, a))
           /\ ~HasApprovedEvent(transferOwnership(Storage, sender, a))
           /\ ~HasApprovedEvent(addVerifier(Storage, sender, a))
           /\ ~HasApprovedEvent(removeVerifier(Storage, sender, a))
           /\ ~HasApprovedEvent(constructor(sender, a))
      /\ ~HasApprovedEvent(renounceOwnership(Storage, sender))
      /\ \A p \in IpfsArgs, ty \in IdTypeArgs, h \in AllHashes :
           ~HasApprovedEvent(requestIdentity(Storage, sender, p, ty, h, now))
      /\ \A r \in RequestIds, reason \in ReasonArgs :
           ~HasApprovedEvent(rejectIDRequest(Storage, sender, r, reason))
      /\ \A a \in AllAddresses, p \in IpfsArgs, d \in ExpiryArgs,
            ty \in IdTypeArgs, h \in AllHashes :
           ~HasApprovedEvent(createIdentity(Storage, sender, a, p, d, ty, h, now))
      /\ \A i \in IdNumbers :
           /\ ~HasApprovedEvent(verifyIdentity(Storage, sender, i))
           /\ ~HasApprovedEvent(revokeIdentity(Storage, sender, i))
           /\ \A p \in IpfsArgs :
                ~HasApprovedEvent(updateIdentityData(Storage, sender, i, p))

\* One request has been approved and the admin's approval of a second,
\* pending one succeeds with the two events.
C21_Witness ==
    /\ adminWallet # ZeroAddress
    /\ \E r \in ExistingRequests : idRequests[r].isApproved
    /\ \E r \in PendingRequests :
         LET res == approveIDRequest(Storage, adminWallet, r, 0, now) IN
         res.err = "" /\ Len(res.logs) = 2 /\ res.logs[1].name = "IDRequestApproved"

\* ---------------------------------------------------------------- C22
\* Storage s holds, under idNumber, the Identity that approving request
\* requestId (as stored in s0) at time timestamp has to mint.
MintedFromRequest(s0, s, requestId, idNumber, timestamp) ==
    LET request == requestAt(s0, requestId)
        identity == identityAt(s, idNumber)
    IN
    /\ getIdentity(s, idNumber).err = ""
    /\ identity.owner = request.requester
    /\ identity.ipfsHash = request.ipfsHash
    /\ identity.uniqueIdentityHash = request.uniqueIdentityHash
    /\ identity.isVerified
    /\ identity.createdAt = timestamp
    /\ identity.idType = "personal_id"
    /\ getIdentityByOwner(s, request.requester) = idNumber
    /\ getIdentityByHash(s, request.uniqueIdentityHash) = idNumber
    /\ requestAt(s, requestId).isApproved
    /\ ~requestAt(s, requestId).isPending
    /\ ~requestAt(s, requestId).isRejected

\* C22: the Identity minted by a successful approveRequest has owner = the
\* request's requester, metadataPointer and fingerprint equal to those stored
\* in the request, isVerified = true, createdAt = now and idType =
\* "personal_id" whatever idType the requester passed to submitRequest; both
\* indexes point at the new id and the request is marked approved.
C22_ApprovalMint ==
    /\ \A sender \in Senders, r \in PendingRequests, d \in ExpiryArgs :
         LET res == approveIDRequest(Storage, sender, r, d, now) IN
         res.err = "" => MintedFromRequest(Storage, res.s, r, res.ret, now)
    /\ \A c \in Senders, p \in IpfsArgs, ty \in IdTypeArgs, f \in AllHashes,
          sender \in Senders, d \in ExpiryArgs :
         LET q == requestIdentity(Storage, c, p, ty, f, now)
             res == approveIDRequest(q.s, sender, q.ret, d, now)
         IN
         (q.err = "" /\ isAdmin(Storage, sender) /\ (d = 0 \/ now + d <= UintMax)) =>
           /\ res.err = ""
           /\ MintedFromRequest(q.s, res.s, q.ret, res.ret, now)
           /\ identityAt(res.s, res.ret).owner = c
           /\ identityAt(res.s, res.ret).ipfsHash = p
           /\ identityAt(res.s, res.ret).uniqueIdentityHash = f
           /\ identityAt(res.s, res.ret).idType = "personal_id"

\* A request has been approved and the Identity minted from it exists with
\* the request's requester, pointer and fingerprint, the default type and
\* both index entries.
C22_Witness ==
    \E r \in ExistingRequests, i \in ExistingIds :
      /\ idRequests[r].isApproved
      /\ identities[i].owner = idRequests[r].requester
      /\ identities[i].ipfsHash = idRequests[r].ipfsHash
      /\ identities[i].uniqueIdentityHash = idRequests[r].uniqueIdentityHash
      /\ identities[i].idType = "personal_id"
      /\ identities[i].isVerified
      /\ walletToId[identities[i].owner] = i
      /\ hashToId[identities[i].uniqueIdentityHash] = i

\* ---------------------------------------------------------------- C23
\* The admin's createIdentity, owner and fingerprint free: an Identity record
\* with the supplied owner, pointer, type and fingerprint and isVerified set
\* is stored under the returned id and indexed, and no Request is created or
\* changed.
DirectMint(sender, a, p, d, ty, f) ==
    LET res == createIdentity(Storage, sender, a, p, d, ty, f, now) IN
    (/\ isAdmin(Storage, sender)
     /\ ~hasIdentity(Storage, a)
     /\ ~isHashRegistered(Storage, f)
     /\ (d = 0 \/ now + d <= UintMax)) =>
      /\ res.err = ""
      /\ identityAt(res.s, res.ret).owner = a
      /\ identityAt(res.s, res.ret).ipfsHash = p
      /\ identityAt(res.s, res.ret).idType = ty
      /\ identityAt(res.s, res.ret).uniqueIdentityHash = f
      /\ identityAt(res.s, res.ret).isVerified
      /\ getIdentityByOwner(res.s, a) = res.ret
      /\ getIdentityByHash(res.s, f) = res.ret
      /\ res.s.idRequests = idRequests
      /\ res.s.requestCounter = requestCounter
      /\ res.s.userRequests = userRequests

Unverified(i) == [Storage EXCEPT !.identities[i].isVerified = FALSE]

\* C24: verify is not idempotent: verify(i) by a verifier fails with
\* NotFoundError when Identity i does not exist and with InvalidStateError
\* when it is already verified, changing nothing; it succeeds, setting
\* isVerified and emitting the verified event, only on an existing Identity
\* whose isVerified is false.
C24_VerifyNotIdempotent ==
    /\ ErrNoIdentity \in NotFoundError
    /\ ErrAlreadyVerified \in InvalidStateError
    /\ \A sender \in Senders, i \in IdNumbers :
         LET res == verifyIdentity(Storage, sender, i) IN
         isVerifier(Storage, sender) =>
           /\ ~IdentityExists(i) => res = Revert(Storage, ErrNoIdentity)
           /\ (IdentityExists(i) /\ identities[i].isVerified) =>
                res = Revert(Storage, ErrAlreadyVerified)
           /\ (res.err = "") <=> (IdentityExists(i) /\ ~identities[i].isVerified)
           /\ res.err = "" =>
                /\ res.s = [Storage EXCEPT !.identities[i].isVerified = TRUE]
                /\ res.logs = <<EvIdentityVerified(i, sender)>>
           /\ IdentityExists(i) =>
                LET v == verifyIdentity(Unverified(i), sender, i) IN
                /\ v.err = ""
                /\ v.s = [Unverified(i) EXCEPT !.identities[i].isVerified = TRUE]
                /\ v.logs = <<EvIdentityVerified(i, sender)>>
                /\ verifyIdentity(v.s, sender, i) = Revert(v.s, ErrAlreadyVerified)

\* Identity 1 was revoked and Identity 2 exists; a verifier that is not the
\* admin is refused on the first as not found and on the second as already
\* verified.
C24_Witness ==
    \E x \in Senders :
      /\ isVerifier(Storage, x) /\ x # adminWallet
      /\ idCounter = 2
      /\ 1 \in DOMAIN identities /\ identities[1] = NoIdentity
      /\ IdentityExists(2)
      /\ verifyIdentity(Storage, x, 1).err = ErrNoIdentity
      /\ verifyIdentity(Storage, x, 2).err = ErrAlreadyVerified

\* ---------------------------------------------------------------- C25
\* C25: updateMetadata(i, p) on an existing Identity succeeds exactly when
\* the caller is that Identity's owner or the current admin; a caller who is
\* only a verifier or only the contract owner is refused with
\* AuthorizationError; on a non-existent id it fails with NotFoundError; on
\* success only the Identity's metadataPointer changes.
C25_UpdateAuthorization ==
    /\ ErrNotOwnerOrAdmin \in AuthorizationError
    /\ \A sender \in Senders, i \in IdNumbers, p \in IpfsArgs :
         LET res == updateIdentityData(Storage, sender, i, p) IN
         IF IdentityExists(i)
         THEN /\ (res.err = "")
                   <=> (sender = identities[i].owner \/ isAdmin(Storage, sender))
              /\ res.err # "" => res = Revert(Storage, ErrNotOwnerOrAdmin)
              /\ res.err = "" =>
                   /\ res.s = [Storage EXCEPT !.identities[i].ipfsHash = p]
                   /\ identityAt(res.s, i).ipfsHash = p
         ELSE res = Revert(Storage, ErrNoIdentity) /\ res.err \in NotFoundError

\* An Identity exists; the contract owner holds no other role, a third
\* account is a verifier only, and both are refused, while the Identity's
\* owner, who is the admin, succeeds.
C25_Witness ==
    \E i \in ExistingIds, v \in Senders :
      /\ contractOwner # ZeroAddress /\ ~isVerifier(Storage, contractOwner)
      /\ contractOwner # adminWallet /\ contractOwner # identities[i].owner
      /\ updateIdentityData(Storage, contractOwner, i, "QmB").err = ErrNotOwnerOrAdmin
      /\ isVerifier(Storage, v) /\ v # adminWallet /\ v # identities[i].owner
      /\ v # contractOwner
      /\ updateIdentityData(Storage, v, i, "QmB").err = ErrNotOwnerOrAdmin
      /\ updateIdentityData(Storage, identities[i].owner, i, "QmB").err = ""
      /\ updateIdentityData(Storage, v, idCounter + 1, "QmB").err = ErrNoIdentity

\* ---------------------------------------------------------------- C26
\* One step leaves the creation-time fields of every Identity that exists
\* before and after it as they were, and changes an Identity at most in its
\* metadata pointer and verification flag, or deletes it.
C26_FrozenFieldsStep ==
    \A i \in ExistingIds :
      LET before == identities[i]
          after == identityAt(Storage', i)
      IN
      \/ after = NoIdentity
      \/ /\ after.owner = before.owner
         /\ after.createdAt = before.createdAt
         /\ after.expiresAt = before.expiresAt
         /\ after.idType = before.idType
         /\ after.uniqueIdentityHash = before.uniqueIdentityHash

\* C26: Identities are soulbound and their creation-time fields immutable:
\* from the step that creates Identity i until the step that revokes it no
\* operation changes its owner, createdAt, expiresAt, idType or fingerprint;
\* the only per-identity mutations are metadata update, the verification
\* flag and deletion by revoke.
C26_CreationFieldsImmutable == [][C26_FrozenFieldsStep]_vars

\* An Identity minted from a request carries a metadata pointer other than
\* the request's, so it has been updated since, and still has the request's
\* requester and fingerprint.
C26_Witness ==
    \E i \in ExistingIds, r \in ExistingRequests :
      /\ idRequests[r].isApproved
      /\ identities[i].idType = "personal_id"
      /\ identities[i].owner = idRequests[r].requester
      /\ identities[i].uniqueIdentityHash = idRequests[r].uniqueIdentityHash
      /\ identities[i].ipfsHash # idRequests[r].ipfsHash

\* ---------------------------------------------------------------- C27
RejectReasons == ReasonArgs \cup {"duplicate"}

\* The fields of a stored Request: no reason among them.
RequestFields ==
    {"requester", "ipfsHash", "requestedAt", "uniqueIdentityHash", "isPending",
     "isApproved", "isRejected"}

\* C27: a successful rejectRequest(r, reason) changes only request r's status
\* (isPending false, isRejected true) and appends one rejected event carrying
\* the reason: no Identity is created, both indexes, both counters and the
\* Role Store are unchanged, the reason is not stored on the Request, and the
\* requester may afterwards submit a request with a different fingerprint
\* and succeed (when the requester owns no Identity, the fingerprint is not
\* registered and the requester has no pending request for it).
C27_RejectFrame ==
    \A sender \in Senders, r \in RequestIds, reason \in RejectReasons :
      LET res == rejectIDRequest(Storage, sender, r, reason) IN
      res.err = "" =>
        /\ res.s = [Storage EXCEPT !.idRequests[r].isPending = FALSE,
                                   !.idRequests[r].isRejected = TRUE]
        /\ res.logs = <<EvIDRequestRejected(r, sender, reason)>>
        /\ res.s.identities = identities
        /\ res.s.walletToId = walletToId /\ res.s.hashToId = hashToId
        /\ res.s.idCounter = idCounter /\ res.s.requestCounter = requestCounter
        /\ res.s.owner = contractOwner /\ res.s.adminWallet = adminWallet
        /\ res.s.verifiers = verifiers
        /\ DOMAIN requestAt(res.s, r) = RequestFields
        /\ ~requestAt(res.s, r).isApproved
        /\ \A g \in AllHashes, p \in IpfsArgs, ty \in IdTypeArgs :
             LET c == idRequests[r].requester
                 q == requestIdentity(res.s, c, p, ty, g, now)
             IN
             (/\ g # idRequests[r].uniqueIdentityHash
              /\ ~hasIdentity(Storage, c)
              /\ ~isHashRegistered(Storage, g)
              /\ ~HasPendingWith(c, g)) =>
               /\ q.err = ""
               /\ requestAt(q.s, q.ret).isPending
               /\ requestAt(q.s, r).isRejected

\* A request was rejected and its requester has since submitted a request
\* with a different fingerprint, which is pending; no Identity was created.
C27_Witness ==
    \E r1 \in ExistingRequests, r2 \in PendingRequests :
      /\ idRequests[r1].isRejected /\ ~idRequests[r1].isPending
      /\ r2 > r1
      /\ idRequests[r2].requester = idRequests[r1].requester
      /\ idRequests[r2].uniqueIdentityHash # idRequests[r1].uniqueIdentityHash
      /\ idCounter = 0

\* ---------------------------------------------------------------- C28
\* One step keeps every existing Request in the ledger with its requester,
\* pointer, fingerprint and submission time.
C28_LedgerStep ==
    \A r \in ExistingRequests :
      LET after == getRequestDetails(Storage', r) IN
      /\ after.err = ""
      /\ after.ret.requester = idRequests[r].requester
      /\ after.ret.ipfsHash = idRequests[r].ipfsHash
      /\ after.ret.uniqueIdentityHash = idRequests[r].uniqueIdentityHash
      /\ after.ret.requestedAt = idRequests[r].requestedAt

\* Exactly the ids 1..requestCounter are found.
C28_FoundIds ==
    \A r \in 0..(requestCounter + 2) :
      IF 1 <= r /\ r <= requestCounter
      THEN getRequestDetails(Storage, r).err = ""
      ELSE getRequestDetails(Storage, r).err \in NotFoundError

\* C28: the Request Ledger is append-only: once request r exists,
\* getRequestDetails(r) succeeds in every later state (also after approval,
\* rejection and revocation of the identity it produced), its requester,
\* metadataPointer, fingerprint and requestedAt never change, and
\* getRequestDetails fails with NotFoundError for id 0 and for every id above
\* the request counter.
C28_LedgerAppendOnly ==
    /\ [](C28_FoundIds)
    /\ [][C28_LedgerStep]_vars

\* A request was approved and the Identity it produced has been revoked, a
\* second request was rejected, and both are still returned.
C28_Witness ==
    \E r1 \in ExistingRequests, r2 \in ExistingRequests :
      /\ idRequests[r1].isApproved
      /\ ~hasIdentity(Storage, idRequests[r1].requester)
      /\ ~isHashRegistered(Storage, idRequests[r1].uniqueIdentityHash)
      /\ ExistingIds = {}
      /\ idRequests[r2].isRejected
      /\ getRequestDetails(Storage, r1).ret.requester = idRequests[r1].requester
      /\ getRequestDetails(Storage, r2).err = ""

\* ---------------------------------------------------------------- C29
\* Call result res consumed no id.
NoIdConsumed(res) ==
    res.s.requestCounter = requestCounter /\ res.s.idCounter = idCounter

\* Call result res, if successful, returned and consumed the next identity
\* id, and consumed no id otherwise.
NextIdentityId(res) ==
    IF res.err = ""
    THEN /\ res.ret = idCounter + 1
         /\ res.s.idCounter = res.ret
         /\ res.s.requestCounter = requestCounter
         /\ DOMAIN res.s.identities = 1..res.ret
    ELSE NoIdConsumed(res)

\* C29: request ids and identity ids are assigned sequentially from 1 and 0
\* is never assigned: the k-th successful submitRequest returns k, the k-th
\* successful identity creation (approveRequest and createIdentityDirect
\* counted together) returns k, failed calls consume no id, and no Request
\* and no Identity exists under id 0.
C29_SequentialIds ==
    /\ DOMAIN idRequests = 1..requestCounter
    /\ ExistingRequests = 1..requestCounter
    /\ DOMAIN identities = 1..idCounter
    /\ ~RequestExists(0) /\ ~IdentityExists(0)
    /\ \A sender \in Senders :
         /\ \A p \in IpfsArgs, ty \in IdTypeArgs, h \in AllHashes :
              LET res == requestIdentity(Storage, sender, p, ty, h, now) IN
              IF res.err = ""
              THEN /\ res.ret = requestCounter + 1
                   /\ res.s.requestCounter = res.ret
                   /\ res.s.idCounter = idCounter
                   /\ getRequestDetails(res.s, res.ret).err = ""
              ELSE NoIdConsumed(res)
         /\ \A r \in RequestIds :
              /\ \A d \in ExpiryArgs :
                   NextIdentityId(approveIDRequest(Storage, sender, r, d, now))
              /\ \A reason \in ReasonArgs :
                   NoIdConsumed(rejectIDRequest(Storage, sender, r, reason))
         /\ \A a \in AllAddresses, p \in IpfsArgs, d \in ExpiryArgs,
               ty \in IdTypeArgs, h \in AllHashes :
              NextIdentityId(createIdentity(Storage, sender, a, p, d, ty, h, now))
         /\ \A i \in IdNumbers :
              /\ NoIdConsumed(verifyIdentity(Storage, sender, i))
              /\ NoIdConsumed(revokeIdentity(Storage, sender, i))
              /\ \A p \in IpfsArgs :
                   NoIdConsumed(updateIdentityData(Storage, sender, i, p))
         /\ \A a \in AllAddresses :
              /\ NoIdConsumed(changeAdmin(Storage, sender, a))
              /\ NoIdConsumed(addVerifier(Storage, sender, a))
              /\ NoIdConsumed(removeVerifier(Storage, sender, a))

\* Two requests and two identities have been numbered 1 and 2, one identity
\* by approval and one by direct creation, and a further submission and a
\* further creation fail without consuming an id.
C29_Witness ==
    /\ requestCounter = 2 /\ idCounter = 2
    /\ IdentityExists(1) /\ IdentityExists(2)
    /\ \E i \in {1, 2} : identities[i].idType = "personal_id"
    /\ \E i \in {1, 2} : identities[i].idType = "passport"
    /\ \E r \in {1, 2} : idRequests[r].isApproved
    /\ adminWallet # ZeroAddress
    /\ requestIdentity(Storage, identities[1].owner, "QmA", "passport", 1, now).err # ""
    /\ createIdentity(Storage, adminWallet, identities[1].owner, "QmA", 0, "passport", 1,
                      now).err # ""

\* ---------------------------------------------------------------- C30
\* The storage is as the constructor, called by deployer with adminArg, left it.
FreshlyDeployed(deployer, adminArg) == Storage = constructor(deployer, adminArg).s

Ascending(l) == \A j \in 1..Len(l), k \in 1..Len(l) : j < k => l[j] < l[k]
Elements(l) == {l[k] : k \in 1..Len(l)}

\* C31: listPendingRequestIds returns exactly the ids of the requests whose
\* status is pending, each once and in ascending id order, the empty list
\* when none is pending, and never an approved or rejected request.
C31_PendingList ==
    LET l == getPendingRequests(Storage) IN
    /\ Elements(l) = PendingRequests
    /\ Ascending(l)
    /\ Len(l) = Cardinality(PendingRequests)
    /\ PendingRequests = {} => l = <<>>
    /\ \A k \in 1..Len(l) :
         ~idRequests[l[k]].isApproved /\ ~idRequests[l[k]].isRejected

\* The first request has been resolved and the second is pending: the list
\* is the second id alone.
C31_Witness ==
    /\ requestCounter = 2
    /\ idRequests[1].isApproved \/ idRequests[1].isRejected
    /\ idRequests[2].isPending
    /\ getPendingRequests(Storage) = <<2>>

EmitsIdentityVerified(r) ==
    \E k \in 1..Len(r.logs) : r.logs[k].name = "IdentityVerified"

\* C33: every existing Identity has isVerified = true; verify never
\* succeeds, by any caller on any id; no call appends the identity-verified
\* event; and isValid of an existing Identity depends only on its expiry.
C33_AlwaysVerified ==
    /\ \A i \in ExistingIds : identities[i].isVerified
    /\ \A sender \in Senders, i \in 0..(idCounter + 1) :
         LET res == verifyIdentity(Storage, sender, i) IN
         /\ res.err # ""
         /\ ~EmitsIdentityVerified(res)
         /\ NothingChanged(res)
    /\ \A i \in ExistingIds, t \in Timestamps :
         isIdentityValid(Storage, i, t)
           <=> (identities[i].expiresAt = 0 \/ t <= identities[i].expiresAt)

\* An Identity with an expiry in the past exists: a verifier's verify call
\* is refused as already verified, and the Identity is invalid although
\* verified.
C33_Witness ==
    \E i \in ExistingIds, sender \in Senders :
      /\ isVerifier(Storage, sender)
      /\ identities[i].expiresAt # 0
      /\ now > identities[i].expiresAt
      /\ verifyIdentity(Storage, sender, i).err = ErrAlreadyVerified
      /\ ~isIdentityValid(Storage, i, now)
      /\ identities[i].isVerified

\* ---------------------------------------------------------------- C34
\* After a creation that returned res with id res.ret for idOwner:
\* getIdentity succeeds with that owner, the identity is valid at the same
\* clock value, and the admin's revoke succeeds.
LiveAfter(res, idOwner) ==
    res.err = "" =>
      /\ getIdentity(res.s, res.ret).err = ""
      /\ getIdentity(res.s, res.ret).ret.owner = idOwner
      /\ isIdentityValid(res.s, res.ret, now)
      /\ revokeIdentity(res.s, res.s.adminWallet, res.ret).err = ""

\* C34: every successful identity creation yields a live, valid Identity:
\* after createIdentityDirect(owner, ...) or approveRequest returns id i, for
\* every owner argument the call accepts, getIdentity(i) succeeds with that
\* owner, isValid(i) is true at the same clock value and revoke(i) by the
\* admin succeeds.
C34_CreationYieldsLive ==
    /\ \A sender \in Senders, idOwner \in AllAddresses, f \in AllHashes, d \in DurationArgs :
         LiveAfter(createIdentity(Storage, sender, idOwner, "QmA", d, "passport", f, now),
                   idOwner)
    /\ \A sender \in Senders, r \in RequestIds, d \in DurationArgs :
         LiveAfter(approveIDRequest(Storage, sender, r, d, now),
                   requestAt(Storage, r).requester)

\* The same with the zero address left out of the owner arguments.
C34_NonZeroOwnerLive ==
    /\ \A sender \in Senders, idOwner \in Senders, f \in AllHashes, d \in DurationArgs :
         LiveAfter(createIdentity(Storage, sender, idOwner, "QmA", d, "passport", f, now),
                   idOwner)
    /\ \A sender \in Senders, r \in RequestIds, d \in DurationArgs :
         LiveAfter(approveIDRequest(Storage, sender, r, d, now),
                   requestAt(Storage, r).requester)

\* ---------------------------------------------------------------- C35
\* C35: in every reachable state the current admin address is a member of
\* the verifier set, after any sequence of constructor, changeAdmin,
\* addVerifier and removeVerifier calls.
C35_AdminIsVerifier ==
    /\ isVerifier(Storage, getAdmin(Storage))
    /\ \A sender \in Senders :
         removeVerifier(Storage, sender, adminWallet).err # ""

\* The admin role has moved to account 3 and every other verifier has been
\* removed: the admin is the only verifier left and its removal is refused.
C35_Witness ==
    /\ adminWallet = 3
    /\ \A x \in AllAddresses : isVerifier(Storage, x) <=> x = 3
    /\ removeVerifier(Storage, adminWallet, adminWallet).err = ErrRemoveAdmin

\* ---------------------------------------------------------------- C36
\* C36: changeAdmin never removes anyone from the verifier set: after the
\* owner replaces admin A by B, A is still a verifier (and can therefore
\* still revoke any Identity) until B explicitly calls removeVerifier(A),
\* which then succeeds provided A is not the contract owner.
C36_OldAdminStaysVerifier ==
    \A sender \in Senders, B \in Senders :
      LET A == adminWallet
          res == changeAdmin(Storage, sender, B)
          rem == removeVerifier(res.s, B, A)
      IN
      (res.err = "" /\ B # A) =>
        /\ \A x \in AllAddresses : isVerifier(Storage, x) => isVerifier(res.s, x)
        /\ isVerifier(res.s, A)
        /\ A \in Senders =>
             \A i \in ExistingIds : revokeIdentity(res.s, A, i).err = ""
        /\ \A x \in Senders \ {B} : removeVerifier(res.s, x, A).err = ErrNotAdmin
        /\ A # res.s.owner =>
             /\ rem.err = ""
             /\ ~isVerifier(rem.s, A)
             /\ A \in Senders =>
                  \A i \in ExistingIds :
                    identities[i].owner # A =>
                      revokeIdentity(rem.s, A, i).err = ErrNotAuthorized
        /\ A = res.s.owner => rem.err = ErrRemoveOwner

\* Account 2, the admin, is neither the contract owner nor the owner of the
\* existing Identity: the owner can hand the admin role to account 3, after
\* which 2 still revokes the Identity as a verifier, and 3 can then remove 2.
C36_Witness ==
    /\ adminWallet = 2
    /\ contractOwner = 1
    /\ \E i \in ExistingIds :
         /\ identities[i].owner # 2
         /\ LET res == changeAdmin(Storage, 1, 3) IN
            /\ res.err = ""
            /\ isVerifier(res.s, 2)
            /\ revokeIdentity(res.s, 2, i).err = ""
            /\ removeVerifier(res.s, 3, 2).err = ""
            /\ revokeIdentity(removeVerifier(res.s, 3, 2).s, 2, i).err = ErrNotAuthorized

\* ---------------------------------------------------------------- C37
\* Address x is neither contract owner, admin nor verifier.
NoRole(x) == x # contractOwner /\ x # adminWallet /\ ~isVerifier(Storage, x)

\* The call with result res, made by x, has left alone everything that is
\* not x's own: the Role Store, every request already in the ledger, the
\* request lists of the other addresses, every Identity owned by another
\* address, the wallet index of every other address, the fingerprint index of
\* every fingerprint that is not that of x's own Identity, and the identity
\* counter; a request it added has x as its requester.
OnlyOwnEffects(res, x) ==
    /\ res.s.owner = contractOwner
    /\ res.s.adminWallet = adminWallet
    /\ res.s.verifiers = verifiers
    /\ \A r \in 1..requestCounter : res.s.idRequests[r] = idRequests[r]
    /\ res.s.requestCounter \in {requestCounter, requestCounter + 1}
    /\ \A r \in (requestCounter + 1)..res.s.requestCounter :
         /\ res.s.idRequests[r].requester = x
         /\ res.s.idRequests[r].isPending
    /\ \A a \in AllAddresses \ {x} :
         /\ res.s.userRequests[a] = userRequests[a]
         /\ res.s.walletToId[a] = walletToId[a]
    /\ \A i \in 1..idCounter :
         identities[i].owner # x => res.s.identities[i] = identities[i]
    /\ \A f \in AllHashes :
         ~(\E i \in ExistingIds : identities[i].owner = x
                                   /\ identities[i].uniqueIdentityHash = f)
           => res.s.hashToId[f] = hashToId[f]
    /\ res.s.idCounter = idCounter

\* C37: an address that is neither contract owner, admin nor verifier can
\* change registry state only for itself: none of its calls changes an
\* Identity owned by another address, an index entry for another address or
\* for a fingerprint bound to another address's Identity, the status of any
\* Request, or the Role Store; its only possible effects are appending
\* requests with itself as requester, updating the metadata of its own
\* Identity, and revoking its own Identity.
C37_NoRoleOnlyOwn ==
    \A x \in Senders :
      NoRole(x) =>
        /\ \A a \in AllAddresses :
             /\ changeAdmin(Storage, x, a).err # ""
             /\ transferOwnership(Storage, x, a).err # ""
             /\ addVerifier(Storage, x, a).err # ""
             /\ removeVerifier(Storage, x, a).err # ""
        /\ renounceOwnership(Storage, x).err # ""
        /\ \A r \in RequestIds :
             /\ \A d \in ExpiryArgs : approveIDRequest(Storage, x, r, d, now).err # ""
             /\ \A reason \in ReasonArgs : rejectIDRequest(Storage, x, r, reason).err # ""
        /\ \A a \in AllAddresses, p \in IpfsArgs, d \in ExpiryArgs,
              ty \in IdTypeArgs, h \in AllHashes :
             createIdentity(Storage, x, a, p, d, ty, h, now).err # ""
        /\ \A i \in IdNumbers : verifyIdentity(Storage, x, i).err # ""
        /\ \A p \in IpfsArgs, ty \in IdTypeArgs, h \in AllHashes :
             OnlyOwnEffects(requestIdentity(Storage, x, p, ty, h, now), x)
        /\ \A i \in IdNumbers :
             /\ LET res == revokeIdentity(Storage, x, i) IN
                /\ OnlyOwnEffects(res, x)
                /\ res.err = "" => identities[i].owner = x
             /\ \A p \in IpfsArgs :
                  LET res == updateIdentityData(Storage, x, i, p) IN
                  /\ OnlyOwnEffects(res, x)
                  /\ res.err = "" =>
                       /\ identities[i].owner = x
                       /\ res.s = [Storage EXCEPT !.identities[i].ipfsHash = p]

\* An address without a role owns an Identity, another address owns one
\* too and a request is pending: the address is refused the revocation and
\* the update of the other Identity and the rejection of the request, and
\* revokes its own Identity.
C37_Witness ==
    \E x \in Senders, i \in ExistingIds, j \in ExistingIds, r \in PendingRequests :
      /\ NoRole(x)
      /\ identities[i].owner = x
      /\ identities[j].owner # x
      /\ revokeIdentity(Storage, x, j).err = ErrNotAuthorized
      /\ updateIdentityData(Storage, x, j, "QmB").err = ErrNotOwnerOrAdmin
      /\ rejectIDRequest(Storage, x, r, "insufficient proof").err = ErrNotAdmin
      /\ revokeIdentity(Storage, x, i).err = ""

\* ---------------------------------------------------------------- C38
\* Result res of a submission in storage s is a success that created a
\* fresh pending request of c with fingerprint f under the next id.
FreshPending(s, res, c, f) ==
    /\ res.err = ""
    /\ res.ret = s.requestCounter + 1
    /\ getRequestDetails(res.s, res.ret).ret.requester = c
    /\ getRequestDetails(res.s, res.ret).ret.uniqueIdentityHash = f
    /\ getRequestDetails(res.s, res.ret).ret.isPending
    /\ res.ret \in Elements(getPendingRequests(res.s))

\* C38: a fingerprint is blocked for a caller only while it is pending for
\* that caller or bound to an existing Identity: a caller c that owns no
\* Identity can submit every fingerprint f that is neither pending for c nor
\* bound to an existing Identity; in particular after c's request with f is
\* rejected, or approved and the resulting Identity revoked, a new
\* submitRequest by c with f succeeds and creates a fresh pending request
\* under a new id.
C38_FingerprintFreeAgain ==
    /\ \A c \in Senders, f \in AllHashes :
         (~OwnsIdentity(c) /\ ~FingerprintBound(f) /\ ~HasPendingWith(c, f)) =>
           FreshPending(Storage, requestIdentity(Storage, c, "QmA", "passport", f, now), c, f)
    /\ \A sender \in Senders, r \in PendingRequests :
         LET c == idRequests[r].requester
             f == idRequests[r].uniqueIdentityHash
             rej == rejectIDRequest(Storage, sender, r, "insufficient proof")
             app == approveIDRequest(Storage, sender, r, 0, now)
             rev == revokeIdentity(app.s, sender, app.ret)
         IN
         /\ (rej.err = "" /\ ~OwnsIdentity(c) /\ ~FingerprintBound(f)) =>
              FreshPending(rej.s, requestIdentity(rej.s, c, "QmA", "passport", f, now), c, f)
         /\ app.err = "" =>
              /\ rev.err = ""
              /\ FreshPending(rev.s, requestIdentity(rev.s, c, "QmA", "passport", f, now), c, f)

\* The same with "registered in the fingerprint index" (isHashRegistered,
\* hasIdentity) in the place of "bound to an existing Identity".
C38_FreeWhenUnregistered ==
    /\ \A c \in Senders, f \in AllHashes :
         (~hasIdentity(Storage, c) /\ ~isHashRegistered(Storage, f) /\ ~HasPendingWith(c, f)) =>
           FreshPending(Storage, requestIdentity(Storage, c, "QmA", "passport", f, now), c, f)
    /\ \A sender \in Senders, r \in PendingRequests :
         LET c == idRequests[r].requester
             f == idRequests[r].uniqueIdentityHash
             rej == rejectIDRequest(Storage, sender, r, "insufficient proof")
             app == approveIDRequest(Storage, sender, r, 0, now)
             rev == revokeIdentity(app.s, sender, app.ret)
         IN
         /\ (rej.err = "" /\ ~hasIdentity(Storage, c) /\ ~isHashRegistered(Storage, f)) =>
              FreshPending(rej.s, requestIdentity(rej.s, c, "QmA", "passport", f, now), c, f)
         /\ app.err = "" =>
              /\ rev.err = ""
              /\ FreshPending(rev.s, requestIdentity(rev.s, c, "QmA", "passport", f, now), c, f)

\* ---------------------------------------------------------------- C39
\* C39: no pending request can become unresolvable: for every pending
\* request r, rejectRequest(r, reason) called by the current admin succeeds,
\* also when approveRequest(r) can no longer succeed because the requester
\* meanwhile owns an Identity or the fingerprint is bound, and afterwards r
\* no longer appears in listPendingRequestIds.
C39_RejectAlwaysPossible ==
    \A sender \in Senders, r \in PendingRequests, reason \in ReasonArgs :
      sender = adminWallet =>
        LET res == rejectIDRequest(Storage, sender, r, reason) IN
        /\ res.err = ""
        /\ r \in Elements(getPendingRequests(Storage))
        /\ r \notin Elements(getPendingRequests(res.s))
        /\ getRequestDetails(res.s, r).ret.isRejected
        /\ ~getRequestDetails(res.s, r).ret.isPending

\* The requester of the only pending request has meanwhile got an Identity
\* with the request's own fingerprint: no expiry argument makes the admin's
\* approval succeed, and the admin's rejection empties the pending list.
C39_Witness ==
    \E r \in PendingRequests :
      /\ adminWallet \in Senders
      /\ getPendingRequests(Storage) = <<r>>
      /\ OwnsIdentity(idRequests[r].requester)
      /\ FingerprintBound(idRequests[r].uniqueIdentityHash)
      /\ \A d \in DurationArgs :
           approveIDRequest(Storage, adminWallet, r, d, now).err # ""
      /\ getPendingRequests(rejectIDRequest(Storage, adminWallet, r, "insufficient proof").s)
           = <<>>

====
